---- MODULE Spec2Model ----
(***************************************************************************)
(* Measurement-and-verdict engine of the Glyphs MCP plugin (handlers.py): *)
(* the stem verdict evaluator, the dominant-value extractor and the       *)
(* per-master batch comparisons with their worst-colour aggregation.      *)
(*                                                                         *)
(* A glyph name is the sequence of its dot-separated parts, so that       *)
(* glyph_name.split(".")[0] is the first element: "h.ss01" is            *)
(* <<"h", "ss01">>.  Stem thicknesses are integers, as the sampler        *)
(* produces them (int(round(...))).  An optional number (a Python value   *)
(* that is an int or None) is a sequence of at most one element: <<>> is  *)
(* None and <<80>> is 80.                                                  *)
(***************************************************************************)
EXTENDS Integers, Sequences, FiniteSets, TLC

VARIABLES
    stemCall,       \* the arguments of a call of _evaluate_stem
    stemEval,       \* the dict that call returned (None before it returns)
    domPc,          \* _find_dominant_stem: "idle", "called" or "returned"
    values,         \* the thickness list handed to _find_dominant_stem
    tolerance,      \* its tolerance argument
    strategy,       \* its strategy argument
    reference,      \* its reference argument
    groups,         \* the clusters it formed
    best,           \* the cluster it selected
    dominant,       \* the value it returned
    font,           \* the open font: its masters and its glyphs with their layers
    glyphColor,     \* glyph.color of every glyph of the font
    request,        \* the body of a POST /api/font/stems/compare request
    response,       \* the status and result the handler answered with
    plugin,         \* the GlyphsMCP plugin object: its bridge and http_server
    bridges,        \* every MainThreadBridge created so far
    defaults,       \* Glyphs.defaults: the allow-execute preference
    items,          \* every WorkItem created so far
    threads,        \* the HTTP request threads: handler, position, answer
    mainPc,         \* the callback the main thread is inside, if any
    log             \* the work items executed so far, in order of execution

stemVars == <<stemCall, stemEval>>
domVars == <<domPc, values, tolerance, strategy, reference, groups, best, dominant>>
cmpVars == <<font, glyphColor, request, response>>
sysVars == <<plugin, bridges, defaults, items, threads, mainPc, log>>
vars == <<stemVars, domVars, cmpVars, sysVars>>

None == "None"

\* an optional number: None, or the number v
NoValue == <<>>
Some(v) == <<v>>

\* no call made, no dict returned yet
NoCall == [glyph |-> <<>>]
NoEval == [verdict |-> None]

-----------------------------------------------------------------------------
(* Each part of the engine at rest, for the specifications that do not    *)
(* exercise it                                                             *)

StemIdle ==
    /\ stemCall = NoCall
    /\ stemEval = NoEval

DomIdle ==
    /\ domPc = "idle"
    /\ values = <<>>
    /\ tolerance = 0
    /\ strategy = "frequency"
    /\ reference = NoValue
    /\ groups = <<>>
    /\ best = <<>>
    /\ dominant = NoValue

NoBody == [none |-> TRUE]

CmpIdle ==
    /\ font = [masters |-> <<>>, glyphs |-> <<>>]
    /\ glyphColor = <<>>
    /\ request = NoBody
    /\ response = [status |-> 0]

\* the plugin before start(): no bridge, no server, no request thread
SysIdle ==
    /\ plugin = [bridge |-> NoValue, http_server |-> NoValue]
    /\ bridges = <<>>
    /\ defaults = [allowExecute |-> FALSE]
    /\ items = <<>>
    /\ threads = <<>>
    /\ mainPc = [at |-> "idle"]
    /\ log = <<>>

-----------------------------------------------------------------------------
(* Arithmetic helpers                                                      *)

Abs(x) == IF x < 0 THEN -x ELSE x

Max(a, b) == IF a >= b THEN a ELSE b

Min(a, b) == IF a <= b THEN a ELSE b

Range(seq) == {seq[i] : i \in 1..Len(seq)}

\* floor(num / den) for den > 0 and any sign of num
FloorDiv(num, den) == IF num >= 0 THEN num \div den ELSE -((-num + den - 1) \div den)

\* Python 3 round() of the rational num/den (den > 0): ties go to the even
\* neighbour.
RoundHalfEven(num, den) ==
    LET q == FloorDiv(num, den)
        r == num - q * den
    IN  IF 2 * r < den THEN q
        ELSE IF 2 * r > den THEN q + 1
        ELSE IF q % 2 = 0 THEN q ELSE q + 1

\* the ratio inverted: weight_factor = max(1.0, 100.0 / ref)
ScaleByInverseWeight(x, ref) == IF ref >= 100 THEN x ELSE RoundHalfEven(x * 100, ref)

\* int(round(x * weight_factor)) with weight_factor = max(1.0, ref / 100.0)
ScaleByWeight(x, ref) == IF ref <= 100 THEN x ELSE RoundHalfEven(x * ref, 100)

-----------------------------------------------------------------------------
(* Pattern tables                                                          *)

MaxDevEntry(d) == [kind |-> "maxDev", lo |-> d, hi |-> d]
RangeEntry(lo, hi) == [kind |-> "range", lo |-> lo, hi |-> hi]
UnreliableEntry == [kind |-> "unreliable", lo |-> 0, hi |-> 0]

STEM_PATTERNS ==
    [b \in {"h", "i", "j", "k", "m", "n", "q", "u"} |-> MaxDevEntry(1)] @@
    [b \in {"b", "g", "t"} |-> MaxDevEntry(2)] @@
    ("l" :> MaxDevEntry(3)) @@
    ("a" :> RangeEntry(-4, 0)) @@
    [b \in {"o", "c"} |-> RangeEntry(0, 7)] @@
    [b \in {"e", "f", "s", "v", "w", "x", "y", "z", "d", "p", "r"} |-> UnreliableEntry] @@
    [b \in {"E", "F", "H", "J", "K", "L", "U"} |-> MaxDevEntry(1)] @@
    [b \in {"P", "T"} |-> MaxDevEntry(2)] @@
    ("A" :> RangeEntry(-5, -3)) @@
    [b \in {"B", "C", "D", "O", "Q"} |-> RangeEntry(0, 4)] @@
    [b \in {"R", "I"} |-> RangeEntry(0, 3)] @@
    ("S" :> RangeEntry(-1, 4)) @@
    ("G" :> RangeEntry(0, 5)) @@
    [b \in {"M", "N", "V", "W", "X", "Y", "Z"} |-> UnreliableEntry] @@
    ("zero" :> RangeEntry(0, 4)) @@
    ("one" :> MaxDevEntry(3)) @@
    [b \in {"two", "three", "five", "nine"} |-> UnreliableEntry] @@
    ("four" :> RangeEntry(-10, 2)) @@
    [b \in {"six", "eight"} |-> RangeEntry(0, 5)] @@
    ("seven" :> RangeEntry(0, 10))

\* only the glyphs the docstring of _evaluate_stem names
HeavyUnreliableLowercaseOnly == {"m", "u", "k", "t"}

_HEAVY_UNRELIABLE ==
    {"m", "u", "k", "K", "t", "A", "one", "three", "five", "six", "seven", "eight"}

HEAVY_REF == 120

DEFAULT_MAX_DEV == 3

\* weight_factor > 1.2, as a reference value
WIDEN_REF == 120

\* glyph_name.split(".")[0]
BaseName(glyph_name) == glyph_name[1]

-----------------------------------------------------------------------------
(* _evaluate_stem                                                          *)

StemResult(glyph_name, measured_value, reference_value, verdict, color) ==
    [glyph |-> glyph_name, value |-> measured_value,
     deviation |-> measured_value - reference_value,
     reference |-> reference_value, verdict |-> verdict, color |-> color]

\* the tolerance left unscaled
UnscaledMaxDev(d, ref) == d

\* scaled_max = max(maxDev, int(round(maxDev * weight_factor)))
ScaledMaxDev(d, ref) == Max(d, ScaleByWeight(d, ref))

\* hi = int(round(range[1] * weight_factor))
ScaledHi(pattern, ref) == ScaleByWeight(pattern.hi, ref)

\* the lower bound scaled but never widened
ScaledLoNotWidened(pattern, ref) == ScaleByWeight(pattern.lo, ref)

\* lo = int(round(range[0] * weight_factor)), widened to -max(1, abs(hi) // 2)
\* when weight_factor > 1.2 and range[0] >= 0
ScaledLo(pattern, ref) ==
    IF ref > WIDEN_REF /\ pattern.lo >= 0
    THEN -Max(1, Abs(ScaledHi(pattern, ref)) \div 2)
    ELSE ScaleByWeight(pattern.lo, ref)

_evaluate_stem(glyph_name, measured_value, reference_value) ==
    LET base == BaseName(glyph_name)
        deviation == measured_value - reference_value
        abs_dev == Abs(deviation)
        ref == reference_value
        Result(verdict, color) ==
            StemResult(glyph_name, measured_value, reference_value, verdict, color)
    IN  IF ref > HEAVY_REF /\ base \in _HEAVY_UNRELIABLE
        THEN Result("unreliable", 1)
        ELSE IF base \notin DOMAIN STEM_PATTERNS
        THEN IF abs_dev <= ScaledMaxDev(DEFAULT_MAX_DEV, ref)
             THEN Result("pass", 4)
             ELSE Result("inconsistent", 0)
        ELSE LET pattern == STEM_PATTERNS[base]
             IN  IF pattern.kind = "unreliable"
                 THEN Result("unreliable", 1)
                 ELSE IF pattern.kind = "range"
                 THEN IF ScaledLo(pattern, ref) <= deviation
                         /\ deviation <= ScaledHi(pattern, ref)
                      THEN Result("compensation", 3)
                      ELSE Result("inconsistent", 0)
                 ELSE IF abs_dev <= ScaledMaxDev(pattern.lo, ref)
                      THEN Result("pass", 4)
                      ELSE Result("inconsistent", 0)

-----------------------------------------------------------------------------
(* The evaluator applied to bounded inputs                                 *)

MinStemRef == 75
MaxStemRef == 205
MaxStemDev == 12

StemGlyphNames ==
    {<<b>> : b \in DOMAIN STEM_PATTERNS}
    \cup {<<"h", "ss01">>, <<"m", "sc">>, <<"o", "alt">>, <<"A", "ss02">>,
          <<"ampersand">>, <<"dotlessi">>, <<"germandbls", "calt">>}

StemCalls ==
    {[glyph |-> g, measured |-> r + d, reference |-> r] :
        g \in StemGlyphNames, r \in MinStemRef..MaxStemRef, d \in -MaxStemDev..MaxStemDev}

StemInit ==
    /\ stemCall \in StemCalls
    /\ stemEval = NoEval

EvaluateStem ==
    /\ stemCall # NoCall
    /\ stemEval = NoEval
    /\ stemEval' = _evaluate_stem(stemCall.glyph, stemCall.measured, stemCall.reference)
    /\ UNCHANGED stemCall

InitStem == StemInit /\ DomIdle /\ CmpIdle /\ SysIdle

StemNext == EvaluateStem /\ UNCHANGED <<domVars, cmpVars, sysVars>>

SpecStem == InitStem /\ [][StemNext]_vars

-----------------------------------------------------------------------------
(* Properties of _evaluate_stem                                            *)

Evaluated == stemEval # NoEval

CallBase == BaseName(stemCall.glyph)

CallPattern == STEM_PATTERNS[CallBase]

CallHasKind(kind) == CallBase \in DOMAIN STEM_PATTERNS /\ CallPattern.kind = kind

CallDeviation == stemCall.measured - stemCall.reference

\* the heavy-weight override applies to the call
HeavyOverride == stemCall.reference > 120 /\ CallBase \in _HEAVY_UNRELIABLE

VerdictIs(verdict, color) == stemEval.verdict = verdict /\ stemEval.color = color

\* round(d x weightFactor) with weightFactor = max(1.0, reference / 100)
RuleScaled(d, ref) == RoundHalfEven(d * Max(100, ref), 100)

\* C2: a glyph whose pattern entry has maxDeviation d gets pass (4) if
\* |measured - reference| <= scaledD = max(d, round(d x weightFactor)) and
\* inconsistent (0) otherwise, whenever the heavy-weight override does not apply.
C2_MaxDevVerdict ==
    (Evaluated /\ CallHasKind("maxDev") /\ ~HeavyOverride) =>
        LET d == CallPattern.lo
            scaledD == Max(d, RuleScaled(d, stemCall.reference))
        IN  IF Abs(CallDeviation) <= scaledD
            THEN VerdictIs("pass", 4)
            ELSE VerdictIs("inconsistent", 0)

\* 'h' (d = 1), reference 80, measured 81 gives pass
C2_Witness ==
    /\ stemCall = [glyph |-> <<"h">>, measured |-> 81, reference |-> 80]
    /\ VerdictIs("pass", 4)

\* The bounds of the range rule, doubled so that |hi|/2 stays an integer:
\* twice the lower bound is -max(2, |hi|) when weightFactor > 1.2 and the
\* original lo >= 0, and twice the scaled lo otherwise.
RuleHi(pattern, ref) == RuleScaled(pattern.hi, ref)

RuleTwiceLo(pattern, ref) ==
    IF ref > 120 /\ pattern.lo >= 0
    THEN -Max(2, Abs(RuleHi(pattern, ref)))
    ELSE 2 * RuleScaled(pattern.lo, ref)

WithinRule(pattern, ref, deviation) ==
    /\ RuleTwiceLo(pattern, ref) <= 2 * deviation
    /\ deviation <= RuleHi(pattern, ref)

RangeVerdictByRule ==
    IF WithinRule(CallPattern, stemCall.reference, CallDeviation)
    THEN VerdictIs("compensation", 3)
    ELSE VerdictIs("inconsistent", 0)

\* C3 as stated: for EVERY glyph whose pattern entry is a range, the verdict is
\* compensation (3) exactly when the deviation lies within the scaled (and, at
\* weightFactor > 1.2 with lo >= 0, widened) bounds, and inconsistent (0) otherwise.
C3_AsStated == (Evaluated /\ CallHasKind("range")) => RangeVerdictByRule

\* C3 amended: the same, whenever the heavy-weight override does not apply; the
\* real-valued bound -max(1, |hi|/2) accepts the deviations the code's floor
\* division accepts.
C3_RangeVerdict ==
    (Evaluated /\ CallHasKind("range") /\ ~HeavyOverride) => RangeVerdictByRule

\* 'o' at reference 150: hi = round(10.5) = 10, lo widened to -5; deviation -5
\* is accepted
C3_Witness ==
    /\ stemCall = [glyph |-> <<"o">>, measured |-> 145, reference |-> 150]
    /\ VerdictIs("compensation", 3)

C4_Table ==
    {"m", "u", "k", "K", "t", "A", "one", "three", "five", "six", "seven", "eight"}

\* C4: a glyph whose base name is in the heavy-weight override table is
\* unreliable (1) whenever the reference stem exceeds 120 units, for every
\* measured value and whatever its normal pattern entry.
C4_HeavyOverride ==
    (Evaluated /\ CallBase \in C4_Table /\ stemCall.reference > 120) =>
        VerdictIs("unreliable", 1)

\* 'K' (maxDev 1) measured exactly at reference 150 is still unreliable
C4_Witness ==
    /\ stemCall = [glyph |-> <<"K">>, measured |-> 150, reference |-> 150]
    /\ VerdictIs("unreliable", 1)

\* the deviation accepted now stays accepted at every heavier reference r2
\* the heavy-weight override does not apply to
StaysAccepted ==
    \A r2 \in stemCall.reference..MaxStemRef :
        ~(r2 > 120 /\ CallBase \in _HEAVY_UNRELIABLE) =>
            _evaluate_stem(stemCall.glyph, r2 + CallDeviation, r2).verdict
                = "compensation"

\* C5 as stated: for EVERY range-pattern glyph, a deviation accepted
\* (compensation) at reference r is accepted at every heavier r2 >= r the
\* override does not apply to.
C5_AsStated ==
    (Evaluated /\ CallHasKind("range") /\ stemEval.verdict = "compensation")
        => StaysAccepted

\* C5 amended: the same for every range pattern whose upper bound is >= 0.
C5_RangeMonotone ==
    (/\ Evaluated
     /\ CallHasKind("range")
     /\ CallPattern.hi >= 0
     /\ stemEval.verdict = "compensation")
        => StaysAccepted

\* 'o' accepts deviation 0 at reference 100 (bounds [0, 7]); heavier references
\* widen both sides
C5_Witness ==
    /\ stemCall = [glyph |-> <<"o">>, measured |-> 100, reference |-> 100]
    /\ stemEval.verdict = "compensation"
    /\ ScaledLo(CallPattern, MaxStemRef) < 0
    /\ ScaledHi(CallPattern, MaxStemRef) > 7

\* the maxDeviation of the call's glyph: its pattern's, or the default 3 when
\* the glyph has no pattern
CallMaxDev == IF CallBase \in DOMAIN STEM_PATTERNS THEN CallPattern.lo ELSE 3

\* C6: for a maxDeviation pattern d (and for the no-pattern default 3) the
\* scaled tolerance is non-decreasing in the reference:
\* scaledTolerance(r1) <= scaledTolerance(r2) for r1 <= r2, and
\* scaledTolerance(200) >= scaledTolerance(100).
C6_ToleranceMonotone ==
    (Evaluated /\ (CallHasKind("maxDev") \/ CallBase \notin DOMAIN STEM_PATTERNS)) =>
        /\ \A r2 \in stemCall.reference..MaxStemRef :
              ScaledMaxDev(CallMaxDev, stemCall.reference)
                  <= ScaledMaxDev(CallMaxDev, r2)
        /\ ScaledMaxDev(CallMaxDev, 200) >= ScaledMaxDev(CallMaxDev, 100)

\* 'l' (d = 3): tolerance 3 at reference 100 and 6 at reference 200
C6_Witness ==
    /\ Evaluated
    /\ stemCall.glyph = <<"l">>
    /\ stemCall.reference = 100
    /\ ScaledMaxDev(CallMaxDev, 100) = 3
    /\ ScaledMaxDev(CallMaxDev, 200) = 6

-----------------------------------------------------------------------------
(* _find_dominant_stem                                                     *)

\* the list left in the order given
Unsorted(vals) == vals

\* sorted(values)
RECURSIVE InsertSorted(_, _)
InsertSorted(v, sorted) ==
    IF sorted = <<>> THEN <<v>>
    ELSE IF v < Head(sorted) THEN <<v>> \o sorted
    ELSE <<Head(sorted)>> \o InsertSorted(v, Tail(sorted))

RECURSIVE SortAscending(_)
SortAscending(vals) ==
    IF vals = <<>> THEN <<>>
    ELSE InsertSorted(vals[Len(vals)], SortAscending(SubSeq(vals, 1, Len(vals) - 1)))

Sorted(vals) == SortAscending(vals)

\* membership relative to the group's last element (chained clusters)
RECURSIVE ClusterChained(_, _, _, _)
ClusterChained(rest, done, current_group, tol) ==
    IF rest = <<>> THEN Append(done, current_group)
    ELSE IF Head(rest) - current_group[Len(current_group)] <= tol
    THEN ClusterChained(Tail(rest), done, Append(current_group, Head(rest)), tol)
    ELSE ClusterChained(Tail(rest), Append(done, current_group), <<Head(rest)>>, tol)

\* the loop over sorted_vals[1:]: `rest` is what is left of it, `done` the
\* groups closed so far
RECURSIVE ClusterLoop(_, _, _, _)
ClusterLoop(rest, done, current_group, tol) ==
    IF rest = <<>> THEN Append(done, current_group)
    ELSE IF Head(rest) - current_group[1] <= tol
    THEN ClusterLoop(Tail(rest), done, Append(current_group, Head(rest)), tol)
    ELSE ClusterLoop(Tail(rest), Append(done, current_group), <<Head(rest)>>, tol)

Cluster(rest, done, current_group, tol) == ClusterLoop(rest, done, current_group, tol)

\* groups, for a non-empty list
FormGroups(vals, tol) ==
    LET sorted_vals == Sorted(vals)
    IN  Cluster(Tail(sorted_vals), <<>>, <<Head(sorted_vals)>>, tol)

\* max(seq, key=...) and min(seq, key=...), keys[i] being the key of seq[i]:
\* the first element, in iteration order, whose key is the greatest (smallest)
FirstMax(seq, keys) ==
    seq[CHOOSE i \in 1..Len(seq) :
            /\ \A j \in 1..Len(seq) : keys[j] <= keys[i]
            /\ \A j \in 1..(i - 1) : keys[j] < keys[i]]

FirstMin(seq, keys) ==
    seq[CHOOSE i \in 1..Len(seq) :
            /\ \A j \in 1..Len(seq) : keys[j] >= keys[i]
            /\ \A j \in 1..(i - 1) : keys[j] > keys[i]]

\* g[len(g) // 2]
Middle(g) == g[(Len(g) \div 2) + 1]

SelectBest(grps, strat, ref) ==
    LET Starts(gs) == [k \in 1..Len(gs) |-> gs[k][1]]
        Sizes(gs) == [k \in 1..Len(gs) |-> Len(gs[k])]
        Distances(gs) == [k \in 1..Len(gs) |-> Abs(Middle(gs[k]) - ref[1])]
        IsMulti(g) == Len(g) >= 2
        multi == SelectSeq(grps, IsMulti)
    IN  IF strat = "thickest"
        THEN IF multi # <<>> THEN FirstMax(multi, Starts(multi))
             ELSE FirstMax(grps, Starts(grps))
        ELSE IF strat = "nearest_ref" /\ ref # NoValue
        THEN FirstMin(grps, Distances(grps))
        ELSE FirstMax(grps, Sizes(grps))

\* the value returned: None for an empty list
_find_dominant_stem(vals, tol, strat, ref) ==
    IF vals = <<>> THEN NoValue
    ELSE Some(Middle(SelectBest(FormGroups(vals, tol), strat, ref)))

-----------------------------------------------------------------------------
(* The extractor applied to bounded inputs                                 *)

DomMaxLen == 3
DomMaxVal == 5
DomMaxTol == 2

Strategies == {"frequency", "thickest", "nearest_ref"}

SeqsUpTo(S, n) == UNION {[1..k -> S] : k \in 0..n}

\* the optional reference that goes with a strategy
References(strat, S) == IF strat = "nearest_ref" THEN {NoValue} \cup {Some(r) : r \in S} ELSE {NoValue}

DomCalled(valueLists, tolerances, refs) ==
    /\ domPc = "called"
    /\ values \in valueLists
    /\ tolerance \in tolerances
    /\ strategy \in Strategies
    /\ reference \in References(strategy, refs)
    /\ groups = <<>>
    /\ best = <<>>
    /\ dominant = NoValue

DomInit == DomCalled(SeqsUpTo(1..DomMaxVal, DomMaxLen), 0..DomMaxTol, 1..DomMaxVal)

FindDominantStem ==
    /\ domPc = "called"
    /\ domPc' = "returned"
    /\ groups' = IF values = <<>> THEN <<>> ELSE FormGroups(values, tolerance)
    /\ best' = IF values = <<>> THEN <<>> ELSE SelectBest(groups', strategy, reference)
    /\ dominant' = IF values = <<>> THEN NoValue ELSE Some(Middle(best'))
    /\ UNCHANGED <<values, tolerance, strategy, reference>>

InitDominant == StemIdle /\ DomInit /\ CmpIdle /\ SysIdle

DominantNext == FindDominantStem /\ UNCHANGED <<stemVars, cmpVars, sysVars>>

SpecDominant == InitDominant /\ [][DominantNext]_vars

\* The documented example: thicknesses around 80 with the default tolerance
DEFAULT_TOLERANCE == 3
ExampleMaxLen == 5
ExampleSpan == 4

ExampleValues == 78..(78 + ExampleSpan)

InitExample ==
    /\ StemIdle
    /\ SysIdle
    /\ CmpIdle
    /\ DomCalled(SeqsUpTo(ExampleValues, ExampleMaxLen), {DEFAULT_TOLERANCE}, {80})

ExampleNext == FindDominantStem /\ UNCHANGED <<stemVars, cmpVars, sysVars>>

SpecExample == InitExample /\ [][ExampleNext]_vars

-----------------------------------------------------------------------------
(* Properties of _find_dominant_stem                                       *)

Returned == domPc = "returned"

\* every reordering of the list `vals`
Reorderings(vals) ==
    {[i \in 1..Len(vals) |-> vals[p[i]]] : p \in Permutations(1..Len(vals))}

\* C7: _find_dominant_stem is order-independent: for every strategy (frequency,
\* thickest, nearest_ref with a fixed reference), tolerance and sample
\* multiset, every permutation of the input list yields the returned value.
C7_OrderIndependent ==
    Returned =>
        \A reordered \in Reorderings(values) :
            _find_dominant_stem(reordered, tolerance, strategy, reference) = dominant

\* a list given in descending order whose two clusters are equally far from the
\* reference: the thinner one, first in sorted order, is selected
C7_Witness ==
    /\ Returned
    /\ values = <<5, 4, 1>>
    /\ tolerance = 1
    /\ strategy = "nearest_ref"
    /\ reference = Some(3)
    /\ groups = << <<1>>, <<4, 5>> >>
    /\ dominant = Some(1)

RECURSIVE Flatten(_)
Flatten(grps) == IF grps = <<>> THEN <<>> ELSE Head(grps) \o Flatten(Tail(grps))

Count(seq, v) == Cardinality({i \in 1..Len(seq) : seq[i] = v})

\* `flat` is `vals` in ascending order
IsSortingOf(flat, vals) ==
    /\ Len(flat) = Len(vals)
    /\ \A v \in Range(vals) \cup Range(flat) : Count(flat, v) = Count(vals, v)
    /\ \A i \in 1..(Len(flat) - 1) : flat[i] <= flat[i + 1]

\* C8: clusters are not chained. The clusters are runs of consecutive sorted
\* samples; every member of a cluster lies within `tolerance` of the cluster's
\* smallest (first) sample; a new cluster starts exactly when a value exceeds
\* cluster-start + tolerance; the returned value is the element at index
\* size // 2 of the selected cluster; an empty input returns no value.
C8_ClustersNotChained ==
    Returned =>
        /\ IsSortingOf(Flatten(groups), values)
        /\ \A k \in 1..Len(groups) :
              /\ groups[k] # <<>>
              /\ \A i \in 1..Len(groups[k]) :
                    /\ groups[k][1] <= groups[k][i]
                    /\ groups[k][i] - groups[k][1] <= tolerance
        /\ \A k \in 1..(Len(groups) - 1) :
              groups[k + 1][1] > groups[k][1] + tolerance
        /\ values # <<>> =>
              /\ best \in Range(groups)
              /\ dominant = Some(best[(Len(best) \div 2) + 1])
        /\ values = <<>> => dominant = NoValue

\* 1, 2, 3 with tolerance 1: each sample is within tolerance of its neighbour,
\* yet 3 is not within tolerance of 1 and starts a new cluster
C8_Witness ==
    /\ Returned
    /\ values = <<3, 1, 2>>
    /\ tolerance = 1
    /\ groups = << <<1, 2>>, <<3>> >>
    /\ strategy = "frequency"
    /\ dominant = Some(2)

IsExample ==
    /\ Returned
    /\ values = <<80, 80, 78, 82, 80>>
    /\ tolerance = 3

\* C9 as stated: with tolerance 3 the samples [80,80,78,82,80] form a single
\* cluster, and the frequency strategy returns 80.
C9_AsStated ==
    IsExample =>
        /\ Len(groups) = 1
        /\ strategy = "frequency" => dominant = Some(80)

\* C9 amended: with tolerance 3 the samples [80,80,78,82,80] form two clusters,
\* [78,80,80,80] and [82] (82 is 4 above the minimum 78), and the frequency
\* strategy returns 80.
C9_ExampleClusters ==
    IsExample =>
        /\ groups = << <<78, 80, 80, 80>>, <<82>> >>
        /\ strategy = "frequency" => dominant = Some(80)

C9_Witness == IsExample /\ strategy = "frequency" /\ dominant = Some(80)

-----------------------------------------------------------------------------
(* The font, as the handlers read it                                       *)

\* A layer: whether it has paths or components, whether layer.bounds is
\* non-null with a non-zero width, and the vertical-stem thicknesses
\* _measure_perpendicular collects on it.
Layer(outlines, bounds, v_stems) ==
    [outlines |-> outlines, bounds |-> bounds, v_stems |-> v_stems]

\* glyph.category, glyph.subCategory and glyph.case, as GlyphsApp's glyph data
\* gives them for a glyph name
GlyphData(glyph_name) ==
    LET base == BaseName(glyph_name)
    IN  IF base \in {"n", "h", "o", "a", "m", "b", "d", "p", "q", "r", "u", "i",
                    "v", "w", "x", "y", "z", "k"}
        THEN [category |-> "Letter", subCategory |-> "Lowercase", case |-> 2]
        ELSE IF base \in {"H", "E", "O", "I", "M", "S", "B", "Q", "U", "A", "V", "W", "X"}
        THEN [category |-> "Letter", subCategory |-> "Uppercase", case |-> 1]
        ELSE IF base \in {"zero", "one", "three", "four", "six", "seven", "eight", "nine"}
        THEN [category |-> "Number", subCategory |-> "Decimal Digit", case |-> 0]
        ELSE [category |-> "Punctuation", subCategory |-> "", case |-> 0]

_classify_glyph(glyph) ==
    IF glyph.category = "Number" \/ glyph.subCategory = "Decimal Digit" THEN "figure"
    ELSE IF glyph.category = "Letter" /\ glyph.subCategory = "Uppercase" THEN "uppercase"
    ELSE IF glyph.category = "Letter" /\ glyph.subCategory = "Lowercase" THEN "lowercase"
    ELSE IF glyph.category = "Letter" /\ glyph.case = 1 THEN "uppercase"
    ELSE IF glyph.category = "Letter" /\ glyph.case = 2 THEN "lowercase"
    ELSE None

_classify_stem_group(glyph_name) ==
    LET base == BaseName(glyph_name)
    IN  IF base \in {"zero", "three", "six", "eight", "nine"} THEN "mixed"
        ELSE IF base \in {"one", "four", "two", "five", "seven"} THEN "figure"
        ELSE IF base \in {"n", "h", "m", "u", "i", "j", "l", "r", "dotlessi",
                          "H", "I", "L", "T", "U", "F", "E", "K", "J"} THEN "straight"
        ELSE IF base \in {"o", "c", "O", "C", "Q"} THEN "round"
        ELSE IF base \in {"b", "d", "p", "q", "g", "a", "e", "s",
                          "D", "B", "P", "R", "G"} THEN "mixed"
        ELSE IF base \in {"v", "w", "x", "y", "z", "k",
                          "V", "W", "X", "Y", "Z", "A", "M", "N"} THEN "diagonal"
        ELSE IF base \in {"t", "f"} THEN "optical"
        ELSE "straight"

\* auto["verticalStems"]["dominant"] of _auto_measure_glyph
_auto_measure_glyph(layer, strat, ref) ==
    IF ~layer.bounds THEN NoValue
    ELSE IF layer.v_stems = <<>> THEN NoValue
    ELSE _find_dominant_stem(layer.v_stems, DEFAULT_TOLERANCE, strat, ref)

HasGlyph(fnt, glyph_name) == glyph_name \in DOMAIN fnt.glyphs

-----------------------------------------------------------------------------
(* _analyze_one_master and handle_compare_stems                            *)

_measure_ref(fnt, ref_name, mid) ==
    IF ~HasGlyph(fnt, ref_name) THEN NoValue
    ELSE IF ~fnt.glyphs[ref_name].layers[mid].outlines THEN NoValue
    ELSE _auto_measure_glyph(fnt.glyphs[ref_name].layers[mid], "frequency", NoValue)

\* the entry appended to `evaluations` for one requested glyph
EvaluateGlyph(fnt, gname, mid, lc_ref, uc_ref) ==
    IF ~HasGlyph(fnt, gname) THEN [glyph |-> gname, error |-> "not found"]
    ELSE
    LET glyph == fnt.glyphs[gname]
        layer == glyph.layers[mid]
        gclass == _classify_glyph(glyph)
        use_uc_ref == gclass = "uppercase" \/ gclass = "figure"
        ref_value == IF use_uc_ref THEN uc_ref ELSE lc_ref
        stem_group == _classify_stem_group(gname)
        v_dom == IF stem_group = "mixed"
                 THEN _auto_measure_glyph(layer, "nearest_ref", ref_value)
                 ELSE _auto_measure_glyph(layer, "frequency", NoValue)
    IN  IF ~layer.outlines THEN [glyph |-> gname, error |-> "no outlines"]
        ELSE IF ref_value = NoValue
        THEN [glyph |-> gname,
              error |-> IF use_uc_ref THEN "no H reference" ELSE "no n reference"]
        ELSE IF v_dom = NoValue
        THEN [glyph |-> gname, group |-> stem_group, verdict |-> "unreliable",
              note |-> "No vertical stems measured", color |-> 1]
        ELSE _evaluate_stem(gname, v_dom[1], ref_value[1]) @@ [group |-> stem_group]

Verdicts == {"pass", "compensation", "inconsistent", "unreliable"}

\* a loop that passes over the names the font lacks
SkipsUnknownNames(fnt, glyph_names, mid) ==
    LET Present(g) == HasGlyph(fnt, g)
        names == SelectSeq(glyph_names, Present)
    IN  [masterId |-> mid, reference |-> <<>>,
         glyphs |->
            [i \in 1..Len(names) |->
                EvaluateGlyph(fnt, names[i], mid,
                    _measure_ref(fnt, <<"n">>, mid), _measure_ref(fnt, <<"H">>, mid))],
         summary |-> <<>>]

_analyze_one_master(fnt, glyph_names, mid) ==
    LET lc_ref == _measure_ref(fnt, <<"n">>, mid)
        uc_ref == _measure_ref(fnt, <<"H">>, mid)
        ref_info ==
            [c \in (IF lc_ref # NoValue THEN {"lowercase"} ELSE {})
                   \cup (IF uc_ref # NoValue THEN {"uppercase"} ELSE {}) |->
                IF c = "lowercase" THEN [glyph |-> "n", verticalStem |-> lc_ref[1]]
                ELSE [glyph |-> "H", verticalStem |-> uc_ref[1]]]
        evaluations ==
            [i \in 1..Len(glyph_names) |->
                EvaluateGlyph(fnt, glyph_names[i], mid, lc_ref, uc_ref)]
        summary ==
            [v \in Verdicts |->
                Cardinality({i \in 1..Len(evaluations) :
                    /\ "verdict" \in DOMAIN evaluations[i]
                    /\ evaluations[i].verdict = v})]
    IN  [masterId |-> mid, reference |-> ref_info, glyphs |-> evaluations,
         summary |-> summary]

\* `if master_id:` is false for a missing masterId and for an empty one
Falsy(x) == x \in {None, ""}

\* masters_to_check: the first master with the id asked for, or all masters
MastersToCheck(fnt, master_id) ==
    IF Falsy(master_id) THEN fnt.masters
    ELSE LET IsAsked(m) == m.id = master_id
             found == SelectSeq(fnt.masters, IsAsked)
         IN  IF found = <<>> THEN <<>> ELSE <<found[1]>>

\* the loop `per_master[mname] = {...}`: a later master replaces the entry of
\* an earlier master of the same name
RECURSIVE PerMasterLoop(_, _, _, _)
PerMasterLoop(fnt, glyph_names, to_check, per_master) ==
    IF to_check = <<>> THEN per_master
    ELSE PerMasterLoop(fnt, glyph_names, Tail(to_check),
            (Head(to_check).name :> _analyze_one_master(fnt, glyph_names, Head(to_check).id))
                @@ per_master)

PerMaster(fnt, glyph_names, to_check) ==
    PerMasterLoop(fnt, glyph_names, to_check, <<>>)

SetMin(S) == CHOOSE x \in S : \A y \in S : x <= y

\* every entry of every per_master[...]["glyphs"]
AllEntries(per_master) == UNION {Range(per_master[mn].glyphs) : mn \in DOMAIN per_master}

\* worst = 4, lowered to every smaller colour among the glyph's entries
WorstColor(per_master, gname) ==
    SetMin({4} \cup
        {ev.color : ev \in {e \in AllEntries(per_master) :
                                e.glyph = gname /\ "color" \in DOMAIN e}})

\* the status and result of the handler, and the glyph colours it leaves
handle_compare_stems(fnt, colors, body) ==
    IF body = NoBody \/ "glyphNames" \notin DOMAIN body
    THEN [status |-> 400, result |-> [error |-> "Body must contain 'glyphNames'"],
          colors |-> colors]
    ELSE
    LET glyph_names == body.glyphNames
        master_id == body.masterId
        masters_to_check == MastersToCheck(fnt, master_id)
        per_master == PerMaster(fnt, glyph_names, masters_to_check)
        requested == Range(glyph_names)
        worst_color == [g \in requested |-> WorstColor(per_master, g)]
    IN  IF ~Falsy(master_id) /\ masters_to_check = <<>>
        THEN [status |-> 200, result |-> [error |-> "Master not found"],
              colors |-> colors]
        ELSE [status |-> 200,
              result |->
                [masters |-> per_master,
                 mastersAnalyzed |->
                    [i \in 1..Len(masters_to_check) |-> masters_to_check[i].name],
                 worstPerGlyph |->
                    [g \in {x \in requested : worst_color[x] < 4} |-> worst_color[g]]],
              colors |->
                [g \in DOMAIN colors |->
                    IF g \in requested THEN Some(worst_color[g]) ELSE colors[g]]]

-----------------------------------------------------------------------------
(* The stem comparison applied to bounded fonts and requests               *)

NumMasters == 2

MasterId(i) == <<"m1", "m2", "m3", "m4">>[i]

MasterNames == {"Regular", "Bold"}

\* the masters of a font: distinct ids; GlyphsApp lets two masters carry the
\* same name
MasterLists(n) ==
    {[i \in 1..n |-> [id |-> MasterId(i), name |-> names[i]]] :
        names \in [1..n -> MasterNames]}

NoOutlines == Layer(FALSE, FALSE, <<>>)
NoBounds == Layer(TRUE, FALSE, <<>>)
NoStems == Layer(TRUE, TRUE, <<>>)
Stems80 == Layer(TRUE, TRUE, <<80, 80, 84>>)
Stems90 == Layer(TRUE, TRUE, <<90, 84, 90>>)

\* a font with several masters holds n and o; a single-master font holds n, H,
\* o and E
GlyphUniverse(n) ==
    IF n = 1 THEN {<<"n">>, <<"H">>, <<"o">>, <<"E">>}
    ELSE {<<"n">>, <<"o">>}

LayerChoices(n, glyph_name) ==
    IF n = 1 THEN {NoOutlines, NoBounds, NoStems, Stems80, Stems90}
    ELSE IF glyph_name = <<"n">> THEN {NoOutlines, Stems80}
    ELSE {NoOutlines, NoStems, Stems80, Stems90}

MasterIdsOf(n) == {MasterId(i) : i \in 1..n}

\* every choice of which glyphs of the universe exist and of their layers
RECURSIVE GlyphsOfFont(_, _)
GlyphsOfFont(n, names) ==
    IF names = {} THEN {<<>>}
    ELSE LET g == CHOOSE x \in names : TRUE
             rest == GlyphsOfFont(n, names \ {g})
         IN  rest \cup
             {(g :> (GlyphData(g) @@ [layers |-> layers])) @@ r :
                 layers \in [MasterIdsOf(n) -> LayerChoices(n, g)], r \in rest}

Fonts ==
    UNION {{[masters |-> ms, glyphs |-> gs] :
                ms \in MasterLists(n), gs \in GlyphsOfFont(n, GlyphUniverse(n))} :
           n \in 1..NumMasters}

GlyphLists(n) ==
    IF n = 1
    THEN {<< <<"o">>, <<"E">> >>, << <<"E">>, <<"q">>, <<"o">> >>,
          << <<"H">>, <<"n">> >>}
    ELSE {<< <<"o">> >>, << <<"o">>, <<"n">> >>, << <<"q">>, <<"o">> >>}

Bodies(n) ==
    {NoBody} \cup
    {[glyphNames |-> gl, masterId |-> mid] :
        gl \in GlyphLists(n), mid \in {None, "m1", "m2", "zz"}}

Pending == [status |-> 0]

InitCompare ==
    /\ StemIdle
    /\ SysIdle
    /\ DomIdle
    /\ font \in Fonts
    /\ glyphColor = [g \in DOMAIN font.glyphs |-> NoValue]
    /\ request \in Bodies(Len(font.masters))
    /\ response = Pending

HandleCompareStems ==
    /\ font.masters # <<>>
    /\ response = Pending
    /\ LET out == handle_compare_stems(font, glyphColor, request)
       IN  /\ response' = [status |-> out.status, result |-> out.result]
           /\ glyphColor' = out.colors
    /\ UNCHANGED <<font, request>>

CompareNext == HandleCompareStems /\ UNCHANGED <<stemVars, domVars, sysVars>>

SpecCompare == InitCompare /\ [][CompareNext]_vars

-----------------------------------------------------------------------------
(* Properties of the stem comparison                                       *)

\* the handler answered with a comparison
Answered == response.status = 200 /\ "masters" \in DOMAIN response.result

Requested == Range(request.glyphNames)

\* the masters the request asks to analyse
Analysed == Range(MastersToCheck(font, request.masterId))

\* the colours of a glyph's evaluations, each analysed master taken on its own
EvaluationColors(gname) ==
    {e.color :
        e \in {x \in UNION {Range(_analyze_one_master(font, request.glyphNames, m.id).glyphs) :
                                m \in Analysed} :
                  x.glyph = gname /\ "color" \in DOMAIN x}}

Least(S) == CHOOSE x \in S : \A y \in S : x <= y

\* C1, as stated: after compare_stems over the analysed masters, the worst
\* severity reported for a glyph and the colour tag applied to it equal the
\* minimum colour among that glyph's evaluations across all analysed masters.
\* Violated when two analysed masters carry the same name.
C1_WorstIsMinimum ==
    Answered =>
        \A g \in Requested :
            EvaluationColors(g) # {} =>
                LET least == Least(EvaluationColors(g))
                    worstPerGlyph == response.result.worstPerGlyph
                IN  /\ HasGlyph(font, g) => glyphColor[g] = Some(least)
                    /\ least < 4 => g \in DOMAIN worstPerGlyph /\ worstPerGlyph[g] = least
                    /\ least = 4 => g \notin DOMAIN worstPerGlyph

\* the reference glyph of the case of gname
ReferenceName(gname) ==
    IF _classify_glyph(font.glyphs[gname]) \in {"uppercase", "figure"}
    THEN <<"H">> ELSE <<"n">>

\* the reference glyph is absent from the font or has no outlines on the master
ReferenceMissing(ref_name, mid) ==
    ~HasGlyph(font, ref_name) \/ ~font.glyphs[ref_name].layers[mid].outlines

\* C10, as stated for the stem comparison: when the reference glyph of a
\* glyph's case is absent or has no outlines on a master, the evaluation of
\* every requested glyph that has outlines on that master carries verdict
\* unreliable and a note.  Violated: the entry carries only an error text.
C10_MissingReferenceUnreliable ==
    Answered =>
        \A mn \in DOMAIN response.result.masters :
            LET m == response.result.masters[mn]
            IN  \A i \in DOMAIN m.glyphs :
                    LET e == m.glyphs[i]
                    IN  (/\ HasGlyph(font, e.glyph)
                         /\ font.glyphs[e.glyph].layers[m.masterId].outlines
                         /\ ReferenceMissing(ReferenceName(e.glyph), m.masterId))
                        => /\ "verdict" \in DOMAIN e
                           /\ e.verdict = "unreliable"
                           /\ "note" \in DOMAIN e

-----------------------------------------------------------------------------
(* COLOR_PATTERNS and _evaluate_color                                      *)

\* an ink density, the quotient of two lengths: num / den with den > 0
Density(num, den) == [num |-> num, den |-> den]

\* "expected" is kept in tenths of a percent (100.2 is 1002)
ExpectedEntry(expected10, maxDev) ==
    [kind |-> "expected", expected10 |-> expected10, maxDev |-> maxDev]
ColorUnreliableEntry == [kind |-> "unreliable", expected10 |-> 0, maxDev |-> 0]

COLOR_PATTERNS ==
    ("h" :> ExpectedEntry(1002, 3)) @@ ("m" :> ExpectedEntry(1023, 3)) @@
    ("r" :> ExpectedEntry(863, 3)) @@ ("u" :> ExpectedEntry(993, 5)) @@
    ("k" :> ExpectedEntry(1002, 5)) @@ ("f" :> ExpectedEntry(861, 6)) @@
    ("c" :> ExpectedEntry(902, 6)) @@ ("v" :> ExpectedEntry(863, 8)) @@
    ("b" :> ExpectedEntry(1063, 9)) @@ ("d" :> ExpectedEntry(1063, 9)) @@
    ("p" :> ExpectedEntry(1063, 9)) @@ ("q" :> ExpectedEntry(1064, 9)) @@
    ("o" :> ExpectedEntry(1000, 10)) @@ ("w" :> ExpectedEntry(989, 10)) @@
    [b \in {"a", "e", "g", "i", "j", "l", "s", "t", "x", "y", "z"} |->
        ColorUnreliableEntry] @@
    ("n" :> ExpectedEntry(1000, 0)) @@
    ("H" :> ExpectedEntry(1000, 0)) @@ ("I" :> ExpectedEntry(1002, 7)) @@
    ("U" :> ExpectedEntry(954, 5)) @@ ("F" :> ExpectedEntry(929, 5)) @@
    ("T" :> ExpectedEntry(780, 7)) @@ ("K" :> ExpectedEntry(996, 8)) @@
    ("L" :> ExpectedEntry(792, 8)) @@ ("O" :> ExpectedEntry(971, 9)) @@
    ("C" :> ExpectedEntry(877, 10)) @@ ("Y" :> ExpectedEntry(729, 10)) @@
    ("V" :> ExpectedEntry(864, 10)) @@ ("J" :> ExpectedEntry(791, 11)) @@
    ("D" :> ExpectedEntry(1048, 12)) @@
    [b \in {"A", "B", "E", "G", "M", "N", "P", "Q", "R", "S", "W", "X", "Z"} |->
        ColorUnreliableEntry] @@
    ("zero" :> ExpectedEntry(1086, 5)) @@ ("one" :> ExpectedEntry(924, 7)) @@
    ("two" :> ExpectedEntry(1043, 9)) @@ ("three" :> ExpectedEntry(1047, 6)) @@
    [b \in {"four", "five", "six", "nine"} |-> ColorUnreliableEntry] @@
    ("seven" :> ExpectedEntry(845, 8)) @@ ("eight" :> ExpectedEntry(1245, 5))

\* the tolerance, in percent, for a glyph without a pattern
UNKNOWN_COLOR_DEV == 12

\* the factor, in halves, of the compensation tier: max_dev * 1.5
COMPENSATION_HALVES == 3

\* a <= b as the floating-point comparison decides it: the two sides are
\* computed in binary floating point, so when the exact values are equal the
\* rounding error of the left side, whose sign is `err`, decides; a deviation
\* of exactly 0 (measured = reference against an expected 100.0) is computed
\* without error
FloatLeq(a, b, err) == a < b \/ (a = b /\ (a = 0 \/ err <= 0))

\* the comparison with the first tier only
NoCompensationTier(dev, first, second, err) ==
    IF FloatLeq(dev, first, err) THEN "pass" ELSE "inconsistent"

\* the if / elif / else on abs(deviation)
Tier(dev, first, second, err) ==
    IF FloatLeq(dev, first, err) THEN "pass"
    ELSE IF FloatLeq(dev, second, err) THEN "compensation"
    ELSE "inconsistent"

VerdictColor(verdict) ==
    IF verdict = "pass" THEN 4
    ELSE IF verdict = "compensation" THEN 3
    ELSE IF verdict = "unreliable" THEN 1
    ELSE 0

\* measured_density and reference_density are Density records; `err` is the
\* sign of the rounding error of the computed deviation
_evaluate_color(glyph_name, measured_density, reference_density, err) ==
    LET base == BaseName(glyph_name)
        \* ratio_pct = x10 / (10 * y)
        x10 == 1000 * measured_density.num * reference_density.den
        y == measured_density.den * reference_density.num
        result == [glyph |-> glyph_name,
                   density |-> RoundHalfEven(10000 * measured_density.num,
                                             measured_density.den),
                   ratioPct |-> RoundHalfEven(x10, y),
                   reference |-> RoundHalfEven(10000 * reference_density.num,
                                               reference_density.den)]
    IN  IF reference_density.num <= 0
        THEN [glyph |-> glyph_name,
              density |-> RoundHalfEven(10000 * measured_density.num,
                                        measured_density.den),
              verdict |-> "unreliable", color |-> 1,
              note |-> "Reference density is zero"]
        ELSE IF base \notin DOMAIN COLOR_PATTERNS
        THEN IF FloatLeq(Abs(x10 - 1000 * y), 10 * UNKNOWN_COLOR_DEV * y, err)
             THEN result @@ [verdict |-> "pass", color |-> 4]
             ELSE result @@ [verdict |-> "inconsistent", color |-> 0,
                             note |-> "Unknown glyph"]
        ELSE
        LET pattern == COLOR_PATTERNS[base]
            deviation == Abs(x10 - pattern.expected10 * y)
            verdict == Tier(2 * deviation, 2 * 10 * pattern.maxDev * y,
                            COMPENSATION_HALVES * 10 * pattern.maxDev * y, err)
        IN  IF pattern.kind = "unreliable"
            THEN result @@ [verdict |-> "unreliable", color |-> 1,
                            note |-> "unreliable pattern"]
            ELSE result @@ [expectedRatioPct |-> pattern.expected10,
                            verdict |-> verdict, color |-> VerdictColor(verdict)]
                        @@ (IF verdict = "pass" THEN <<>>
                            ELSE [note |-> "Density ratio"])

-----------------------------------------------------------------------------
(* _evaluate_color applied to bounded inputs                               *)

\* the value a function returned
Return(value) == [status |-> 1, result |-> value]

NoFont == [masters |-> <<>>, glyphs |-> <<>>]

\* densities in thousandths
ColorMinMilli == 180
ColorMaxMilli == 420

ColorGlyphNames ==
    {<<b>> : b \in DOMAIN COLOR_PATTERNS} \cup
    {<<"o", "ss01">>, <<"eight", "tf">>, <<"ampersand">>, <<"germandbls", "calt">>}

ColorCalls ==
    [glyph : ColorGlyphNames,
     measured : {Density(m, 1000) : m \in ColorMinMilli..ColorMaxMilli},
     reference : {Density(r, 1000) : r \in {0, 250, 300}},
     err : {-1, 0, 1}]

InitColorEval ==
    /\ StemIdle
    /\ SysIdle
    /\ DomIdle
    /\ font = NoFont
    /\ glyphColor = <<>>
    /\ request \in ColorCalls
    /\ response = Pending

EvaluateColor ==
    /\ response = Pending
    /\ response' = Return(_evaluate_color(request.glyph, request.measured,
                                          request.reference, request.err))
    /\ UNCHANGED <<font, glyphColor, request>>

ColorEvalNext == EvaluateColor /\ UNCHANGED <<stemVars, domVars, sysVars>>

SpecColorEval == InitColorEval /\ [][ColorEvalNext]_vars

-----------------------------------------------------------------------------
(* Properties of _evaluate_color                                           *)

ColorEvaluated == response.status = 1 /\ request.reference.num > 0

ColorBase == request.glyph[1]

\* measured/reference * 100 = RatioNum / RatioDen, in tenths of a percent
RatioNum == 1000 * request.measured.num * request.reference.den
RatioDen == request.measured.den * request.reference.num

\* |ratio - e| compared with a tolerance of `halves` half percents:
\* -1 below, 0 equal, 1 above
Against(expected10, halves) ==
    LET dev == 2 * Abs(RatioNum - expected10 * RatioDen)
        tol == 10 * halves * RatioDen
    IN  IF dev < tol THEN -1 ELSE IF dev = tol THEN 0 ELSE 1

ColorVerdictIs(verdict, color) ==
    response.result.verdict = verdict /\ response.result.color = color

\* C15, as stated: an unreliable entry yields unreliable with its note; an
\* entry with expected ratio e and maxDev d yields pass if |ratio - e| <= d and
\* inconsistent otherwise; a glyph with no entry yields pass if
\* |ratio - 100| <= 12 and inconsistent otherwise.
C15_AsStated ==
    ColorEvaluated =>
        IF ColorBase \notin DOMAIN COLOR_PATTERNS
        THEN IF Against(1000, 2 * 12) <= 0 THEN ColorVerdictIs("pass", 4)
             ELSE ColorVerdictIs("inconsistent", 0)
        ELSE IF COLOR_PATTERNS[ColorBase].kind = "unreliable"
        THEN ColorVerdictIs("unreliable", 1) /\ "note" \in DOMAIN response.result
        ELSE IF Against(COLOR_PATTERNS[ColorBase].expected10,
                        2 * COLOR_PATTERNS[ColorBase].maxDev) <= 0
        THEN ColorVerdictIs("pass", 4)
        ELSE ColorVerdictIs("inconsistent", 0)

\* C15, amended: an unreliable entry yields unreliable (1) with its note; an
\* entry with expected ratio e and maxDev d yields pass (4) when
\* |ratio - e| < d, compensation (3) when d < |ratio - e| < 1.5 d and
\* inconsistent (0) when |ratio - e| > 1.5 d; a glyph with no entry yields pass
\* when |ratio - 100| < 12 and inconsistent when |ratio - 100| > 12.  A ratio
\* exactly on a boundary gets one of the two verdicts the boundary separates
\* (the comparison is made in floating point).
C15_ColorVerdict ==
    ColorEvaluated =>
        IF ColorBase \notin DOMAIN COLOR_PATTERNS
        THEN LET c == Against(1000, 2 * 12)
             IN  /\ c < 0 => ColorVerdictIs("pass", 4)
                 /\ c > 0 => ColorVerdictIs("inconsistent", 0)
                 /\ c = 0 => ColorVerdictIs("pass", 4) \/ ColorVerdictIs("inconsistent", 0)
        ELSE IF COLOR_PATTERNS[ColorBase].kind = "unreliable"
        THEN ColorVerdictIs("unreliable", 1) /\ "note" \in DOMAIN response.result
        ELSE LET e == COLOR_PATTERNS[ColorBase].expected10
                 d == COLOR_PATTERNS[ColorBase].maxDev
                 first == Against(e, 2 * d)
                 second == Against(e, 3 * d)
             IN  /\ first < 0 => ColorVerdictIs("pass", 4)
                 /\ Against(e, 0) = 0 => ColorVerdictIs("pass", 4)
                 /\ (first > 0 /\ second < 0) => ColorVerdictIs("compensation", 3)
                 /\ second > 0 => ColorVerdictIs("inconsistent", 0)
                 /\ \/ ColorVerdictIs("pass", 4) /\ first <= 0
                    \/ ColorVerdictIs("compensation", 3) /\ first >= 0 /\ second <= 0
                    \/ ColorVerdictIs("inconsistent", 0) /\ second >= 0

\* o at 112 % of n: beyond maxDev 10 and within 15, hence compensation
C15_Witness ==
    /\ response.status = 1
    /\ request.glyph = <<"o">>
    /\ request.measured = Density(336, 1000)
    /\ request.reference = Density(300, 1000)
    /\ ColorVerdictIs("compensation", 3)

-----------------------------------------------------------------------------
(* _measure_glyph_density                                                  *)

\* what the sampler reads of a layer: layer.width and, for the k-th scanline
\* it casts, the x coordinates layer.intersectionsBetweenPoints returns
DensityLayer(width, rows) == [width |-> width, rows |-> rows]

\* the scanlines y = zone_bottom + resolution/2 + k*resolution below
\* zone_bottom + zone_height (resolution > 0), counted by k
Scanlines(zone_height, zone_bottom, resolution) ==
    {k \in 0..Max(zone_height, 0) :
        2 * zone_bottom + (2 * k + 1) * resolution < 2 * (zone_bottom + zone_height)}

\* xs = sorted(raw), kept where 0 <= x <= layer.width
ClippedSorted(raw, width) ==
    LET InLayer(x) == 0 <= x /\ x <= width
    IN  SelectSeq(SortAscending(raw), InLayer)

\* the pairs taken one after the other, as the sampler takes them
RECURSIVE PairedLength(_)
PairedLength(xs) ==
    IF Len(xs) < 2 THEN 0
    ELSE (xs[2] - xs[1]) + PairedLength(SubSeq(xs, 3, Len(xs)))

RECURSIVE SumOver(_, _)
SumOver(S, f) ==
    IF S = {} THEN 0
    ELSE LET k == CHOOSE x \in S : TRUE IN f[k] + SumOver(S \ {k}, f)

\* the density, or None
_measure_glyph_density(layer, zone_height, zone_bottom, resolution) ==
    IF zone_height <= 0 \/ layer.width <= 0 THEN NoValue
    ELSE LET lines == Scanlines(zone_height, zone_bottom, resolution)
             filled_len ==
                SumOver(lines,
                    [k \in lines |-> PairedLength(ClippedSorted(layer.rows[k + 1], layer.width))])
             total_len == Cardinality(lines) * layer.width
         IN  IF total_len > 0 THEN Some(Density(filled_len, total_len))
             ELSE Some(Density(0, 1))

-----------------------------------------------------------------------------
(* The density sampler applied to bounded layers                           *)

DensMaxWidth == 2
DensMaxRaw == 3

ZoneHeights == {0, 1, 2}
Resolutions == {1, 2, 4}

\* the lists a scanline can return, in descending order: the end points of the
\* measuring line at -1 and width + 1 are among the values
RawLists ==
    {raw \in SeqsUpTo((-1)..(DensMaxWidth + 1), DensMaxRaw) :
        \A i \in 1..(Len(raw) - 1) : raw[i] >= raw[i + 1]}

DensityCalls ==
    UNION {[layer : {DensityLayer(w, rows) :
                        w \in 0..DensMaxWidth,
                        rows \in [1..Cardinality(Scanlines(zh, 0, res)) -> RawLists]},
            zone_height : {zh}, zone_bottom : {0}, resolution : {res}] :
           zh \in ZoneHeights, res \in Resolutions}

InitDensity ==
    /\ StemIdle
    /\ SysIdle
    /\ DomIdle
    /\ font = NoFont
    /\ glyphColor = <<>>
    /\ request \in DensityCalls
    /\ response = Pending

MeasureGlyphDensity ==
    /\ response = Pending
    /\ response' = Return(_measure_glyph_density(request.layer, request.zone_height,
                                                 request.zone_bottom, request.resolution))
    /\ UNCHANGED <<font, glyphColor, request>>

DensityNext == MeasureGlyphDensity /\ UNCHANGED <<stemVars, domVars, sysVars>>

SpecDensity == InitDensity /\ [][DensityNext]_vars

-----------------------------------------------------------------------------
(* Properties of the density sampler                                       *)

DensityMeasured == response.status = 1

PositiveLayer == request.layer.width > 0 /\ request.zone_height > 0

\* every scanline meets the outline at x = 0 and x = width only: a filled
\* rectangle spanning the advance width and the zone
IsFullRectangle ==
    \A k \in DOMAIN request.layer.rows :
        \E ends \in SUBSET {-1, request.layer.width + 1} :
            Range(request.layer.rows[k]) = {0, request.layer.width} \cup ends
            /\ Cardinality({i \in DOMAIN request.layer.rows[k] :
                               request.layer.rows[k][i] \in {0, request.layer.width}}) = 2

\* the density lies in [0, 1]
DensityInUnitInterval ==
    (DensityMeasured /\ PositiveLayer) =>
        /\ response.result # NoValue
        /\ 0 <= response.result[1].num
        /\ response.result[1].num <= response.result[1].den

\* C16, as stated: for every layer with positive advance width and positive
\* zone height and every set of scanline intersections, the density lies in
\* [0,1]; for a single filled rectangle spanning (0..width, 0..zoneHeight) it
\* is 1.0.  Violated when the resolution is so coarse that no scanline falls
\* inside the zone: the density returned is 0.
C16_DensityOfRectangle ==
    /\ DensityInUnitInterval
    /\ (DensityMeasured /\ PositiveLayer /\ IsFullRectangle) =>
          /\ response.result # NoValue
          /\ response.result[1].num = response.result[1].den

\* with at least one scanline inside the zone the rectangle's density is 1
SampledRectangleIsFull ==
    (DensityMeasured /\ PositiveLayer /\ IsFullRectangle /\ request.layer.rows # <<>>) =>
        response.result[1].num = response.result[1].den

-----------------------------------------------------------------------------
(* handle_compare_color                                                    *)

\* a master with the metrics the density checks read
ColorMaster(id, name, xHeight, capHeight) ==
    [id |-> id, name |-> name, xHeight |-> xHeight, capHeight |-> capHeight]

\* a layer as the density checks read it: whether it has paths or components,
\* layer.width and the intersections of its scanlines
ColorLayer(outlines, width, rows) ==
    [outlines |-> outlines, width |-> width, rows |-> rows]

DEFAULT_RESOLUTION == 10

\* the reference density of a master: None without the glyph, without outlines
\* or with invalid dimensions
_reference_density(fnt, ref_name, master, zone_height, resolution) ==
    IF ~HasGlyph(fnt, ref_name) THEN NoValue
    ELSE IF ~fnt.glyphs[ref_name].layers[master.id].outlines THEN NoValue
    ELSE _measure_glyph_density(fnt.glyphs[ref_name].layers[master.id],
                                zone_height, 0, resolution)

\* `if ref_density and ref_density > 0`
UsableReference(ref_density) == ref_density # NoValue /\ ref_density[1].num > 0

\* the entry appended to `evaluations` for one requested glyph
ColorEntry(fnt, gname, master, ref_lc, ref_uc, resolution, err) ==
    IF ~HasGlyph(fnt, gname)
    THEN [glyph |-> gname, verdict |-> "error", note |-> "not found"]
    ELSE
    LET glyph == fnt.glyphs[gname]
        layer == glyph.layers[master.id]
        lowercase == _classify_glyph(glyph) = "lowercase"
        zone_height == IF lowercase THEN master.xHeight ELSE master.capHeight
        ref_density == IF lowercase THEN ref_lc ELSE ref_uc
        density == _measure_glyph_density(layer, zone_height, 0, resolution)
    IN  IF ~layer.outlines
        THEN [glyph |-> gname, verdict |-> "error", note |-> "no outlines"]
        ELSE IF density = NoValue
        THEN [glyph |-> gname, verdict |-> "error", note |-> "invalid dimensions"]
        ELSE IF UsableReference(ref_density)
        THEN _evaluate_color(gname, density[1], ref_density[1], err)
                @@ [width |-> layer.width]
        ELSE [glyph |-> gname,
              density |-> RoundHalfEven(10000 * density[1].num, density[1].den),
              verdict |-> "unreliable", color |-> 1,
              note |-> "No reference glyph available", width |-> layer.width]

\* the analysis of one master: all_master_results[mid]
_compare_color_master(fnt, glyph_names, master, resolution, err) ==
    LET ref_lc == _reference_density(fnt, <<"n">>, master, master.xHeight, resolution)
        ref_uc == _reference_density(fnt, <<"H">>, master, master.capHeight, resolution)
        evaluations ==
            [i \in 1..Len(glyph_names) |->
                ColorEntry(fnt, glyph_names[i], master, ref_lc, ref_uc, resolution, err)]
        verdicts ==
            [v \in {evaluations[i].verdict : i \in 1..Len(evaluations)} |->
                Cardinality({i \in 1..Len(evaluations) : evaluations[i].verdict = v})]
    IN  [masterName |-> master.name,
         referenceLc |-> IF UsableReference(ref_lc) THEN ref_lc ELSE NoValue,
         referenceUc |-> IF UsableReference(ref_uc) THEN ref_uc ELSE NoValue,
         glyphs |-> evaluations,
         verdictCounts |-> verdicts]

\* the colours of the evaluations of gname that carry one, over `results`
ColorsOf(results, gname) ==
    {e.color : e \in {x \in UNION {Range(results[mid].glyphs) : mid \in DOMAIN results} :
                         x.glyph = gname /\ "color" \in DOMAIN x}}

\* worst_per_glyph: a glyph enters with its first evaluation that is not an
\* error entry and keeps the smallest colour
WorstPerGlyph(results, glyph_names) ==
    [g \in {x \in Range(glyph_names) : ColorsOf(results, x) # {}} |->
        SetMin(ColorsOf(results, g))]

\* the glyph colours after `glyph.color = color` for every glyph of
\* worst_per_glyph that the font has
MarkWorst(colors, worst_per_glyph) ==
    [g \in DOMAIN colors |->
        IF g \in DOMAIN worst_per_glyph THEN Some(worst_per_glyph[g]) ELSE colors[g]]

\* the response and the marks, once the masters are analysed
DensityReport(colors, masters_to_analyze, all_master_results, worst_per_glyph) ==
    [status |-> 200,
     result |-> [masters |-> all_master_results,
                 mastersAnalyzed |-> Len(masters_to_analyze),
                 worstPerGlyph |-> worst_per_glyph],
     colors |-> MarkWorst(colors, worst_per_glyph)]

\* all_master_results, keyed by master id
CompareColorMasters(fnt, glyph_names, masters_to_analyze, resolution, err) ==
    [mid \in {masters_to_analyze[i].id : i \in 1..Len(masters_to_analyze)} |->
        _compare_color_master(fnt, glyph_names,
            CHOOSE m \in Range(masters_to_analyze) : m.id = mid, resolution, err)]

CompareColorReport(colors, glyph_names, masters_to_analyze, all_master_results) ==
    DensityReport(colors, masters_to_analyze, all_master_results,
                  WorstPerGlyph(all_master_results, glyph_names))

BodyResolution(body, default) ==
    IF body = NoBody \/ "resolution" \notin DOMAIN body THEN default ELSE body.resolution

BodyMasterId(body) ==
    IF body = NoBody \/ "masterId" \notin DOMAIN body THEN None ELSE body.masterId

MasterNotFound(colors) ==
    [status |-> 200, result |-> [error |-> "Master not found"], colors |-> colors]

\* no check of the master id asked for
NeverUnknown(fnt, master_id) == FALSE

UnknownMaster(fnt, master_id) ==
    ~Falsy(master_id) /\ MastersToCheck(fnt, master_id) = <<>>

\* the status and result of the handler, and the glyph colours it leaves
handle_compare_color(fnt, colors, body, err) ==
    IF body = NoBody \/ "glyphNames" \notin DOMAIN body
    THEN [status |-> 400, result |-> [error |-> "Body must contain 'glyphNames'"],
          colors |-> colors]
    ELSE IF UnknownMaster(fnt, BodyMasterId(body)) THEN MasterNotFound(colors)
    ELSE CompareColorReport(colors, body.glyphNames,
            MastersToCheck(fnt, BodyMasterId(body)),
            CompareColorMasters(fnt, body.glyphNames,
                MastersToCheck(fnt, BodyMasterId(body)),
                BodyResolution(body, DEFAULT_RESOLUTION), err))

-----------------------------------------------------------------------------
(* handle_color_audit                                                      *)

AUDIT_RESOLUTION == 15

\* the group of a glyph class in the audit
AuditGroup(gclass) ==
    IF gclass = "uppercase" THEN "uppercase"
    ELSE IF gclass = "lowercase" THEN "lowercase"
    ELSE IF gclass = "figure" THEN "figures"
    ELSE None

\* the glyphs of the font the audit evaluates on a master: those of a known
\* class, with outlines, whose density can be measured; the others are skipped
\* with `continue`
AuditedGlyphs(fnt, master, resolution) ==
    {g \in DOMAIN fnt.glyphs :
        LET glyph == fnt.glyphs[g]
            gclass == _classify_glyph(glyph)
            layer == glyph.layers[master.id]
            zone_height == IF gclass = "lowercase" THEN master.xHeight
                           ELSE master.capHeight
        IN  /\ gclass # None
            /\ layer.outlines
            /\ _measure_glyph_density(layer, zone_height, 0, resolution) # NoValue}

\* entries in ascending order of density: glyphs.sort(key=density)
RECURSIVE SortByDensity(_)
SortByDensity(entries) ==
    IF entries = {} THEN <<>>
    ELSE LET least == CHOOSE e \in entries : \A o \in entries : e.density <= o.density
         IN  <<least>> \o SortByDensity(entries \ {least})

\* master_result: the groups with their entries and counts (the mean, median,
\* stddev and the overall ratios of the report are not carried)
_audit_master(fnt, master, resolution, err) ==
    LET ref_lc == _reference_density(fnt, <<"n">>, master, master.xHeight, resolution)
        ref_uc == _reference_density(fnt, <<"H">>, master, master.capHeight, resolution)
        audited == AuditedGlyphs(fnt, master, resolution)
        Entry(g) == ColorEntry(fnt, g, master, ref_lc, ref_uc, resolution, err)
        GroupOf(g) == AuditGroup(_classify_glyph(fnt.glyphs[g]))
    IN  [group \in {"uppercase", "lowercase", "figures"} |->
            LET members == {Entry(g) : g \in {x \in audited : GroupOf(x) = group}}
            IN  [glyphs |-> SortByDensity(members), count |-> Cardinality(members)]]

\* the colours of the audit entries of gname over `results`
AuditColorsOf(results, gname) ==
    {e.color :
        e \in {x \in UNION {Range(results[mid][group].glyphs) :
                               mid \in DOMAIN results,
                               group \in {"uppercase", "lowercase", "figures"}} :
                  x.glyph = gname}}

\* all_master_results of the audit, keyed by master id
AuditMasters(fnt, masters_to_analyze, resolution, err) ==
    [mid \in {masters_to_analyze[i].id : i \in 1..Len(masters_to_analyze)} |->
        _audit_master(fnt, CHOOSE m \in Range(masters_to_analyze) : m.id = mid,
                      resolution, err)]

AuditWorstPerGlyph(fnt, all_master_results) ==
    [g \in {x \in DOMAIN fnt.glyphs : AuditColorsOf(all_master_results, x) # {}} |->
        SetMin(AuditColorsOf(all_master_results, g))]

AuditReport(fnt, colors, masters_to_analyze, all_master_results) ==
    DensityReport(colors, masters_to_analyze, all_master_results,
                  AuditWorstPerGlyph(fnt, all_master_results))

handle_color_audit(fnt, colors, body, err) ==
    IF UnknownMaster(fnt, BodyMasterId(body)) THEN MasterNotFound(colors)
    ELSE AuditReport(fnt, colors, MastersToCheck(fnt, BodyMasterId(body)),
            AuditMasters(fnt, MastersToCheck(fnt, BodyMasterId(body)),
                         BodyResolution(body, AUDIT_RESOLUTION), err))

-----------------------------------------------------------------------------
(* The density checks applied to bounded fonts and requests                *)

\* a request to a batch check: the route and the JSON body
Call(route, body) == [route |-> route, body |-> body]

CheckMasterIds == <<"m1", "m2">>

\* advance width 50, one scanline inside the zone at resolution 2
Blank == ColorLayer(FALSE, 50, << <<-1, 51>> >>)
ZeroWidth == ColorLayer(TRUE, 0, << <<-1, 1>> >>)
Ink25 == ColorLayer(TRUE, 50, << <<-1, 0, 25, 51>> >>)
Ink28 == ColorLayer(TRUE, 50, << <<-1, 10, 24, 30, 44, 51>> >>)
Ink50 == ColorLayer(TRUE, 50, << <<-1, 0, 50, 51>> >>)

\* a single-master font holds n, H, o and O; a font with two masters n and o
ColorUniverse(n) ==
    IF n = 1 THEN {<<"n">>, <<"H">>, <<"o">>, <<"O">>} ELSE {<<"n">>, <<"o">>}

ColorLayerChoices(n, glyph_name) ==
    IF n = 1 THEN {Blank, ZeroWidth, Ink25, Ink28}
    ELSE IF glyph_name = <<"n">> THEN {Blank, Ink25}
    ELSE {Blank, ZeroWidth, Ink28, Ink50}

RECURSIVE ColorGlyphsOfFont(_, _)
ColorGlyphsOfFont(n, names) ==
    IF names = {} THEN {<<>>}
    ELSE LET g == CHOOSE x \in names : TRUE
             rest == ColorGlyphsOfFont(n, names \ {g})
         IN  rest \cup
             {(g :> (GlyphData(g) @@ [layers |-> layers])) @@ r :
                 layers \in [{CheckMasterIds[i] : i \in 1..n} -> ColorLayerChoices(n, g)],
                 r \in rest}

\* masters with an x-height of 0 or 2 and a cap height of 2
ColorMasterLists(n) ==
    {[i \in 1..n |-> ColorMaster(CheckMasterIds[i], "Regular", xh[i], 2)] :
        xh \in [1..n -> {0, 2}]}

ColorFonts ==
    UNION {{[masters |-> ms, glyphs |-> gs] :
                ms \in ColorMasterLists(n), gs \in ColorGlyphsOfFont(n, ColorUniverse(n))} :
           n \in 1..Len(CheckMasterIds)}

ColorGlyphLists ==
    {<< <<"o">> >>, << <<"o">>, <<"n">> >>, << <<"q">>, <<"o">>, <<"O">> >>}

ColorBodies ==
    {NoBody} \cup
    {[glyphNames |-> gl, masterId |-> mid, resolution |-> res] :
        gl \in ColorGlyphLists, mid \in {None, "m2", "zz"}, res \in {2, 4}}

AuditBodies ==
    {NoBody} \cup
    {[masterId |-> mid, resolution |-> res] : mid \in {None, "m2", "zz"}, res \in {2, 4}}

InitColor ==
    /\ StemIdle
    /\ SysIdle
    /\ DomIdle
    /\ font \in ColorFonts
    /\ glyphColor = [g \in DOMAIN font.glyphs |-> NoValue]
    /\ request \in {Call("color/compare", b) : b \in ColorBodies}
                   \cup {Call("color/audit", b) : b \in AuditBodies}
    /\ response = Pending

HandleCompareColor ==
    /\ request.route = "color/compare"
    /\ response = Pending
    /\ \E err \in {-1, 0, 1} :
          LET out == handle_compare_color(font, glyphColor, request.body, err)
          IN  /\ response' = [status |-> out.status, result |-> out.result]
              /\ glyphColor' = out.colors
    /\ UNCHANGED <<font, request, stemVars, domVars, sysVars>>

HandleColorAudit ==
    /\ request.route = "color/audit"
    /\ response = Pending
    /\ \E err \in {-1, 0, 1} :
          LET out == handle_color_audit(font, glyphColor, request.body, err)
          IN  /\ response' = [status |-> out.status, result |-> out.result]
              /\ glyphColor' = out.colors
    /\ UNCHANGED <<font, request, stemVars, domVars, sysVars>>

ColorNext == HandleCompareColor \/ HandleColorAudit

SpecColor == InitColor /\ [][ColorNext]_vars

-----------------------------------------------------------------------------
(* Properties of the density checks                                        *)

\* the check answered with a report
Reported == response.status = 200 /\ "masters" \in DOMAIN response.result

\* the entries of one master's part of a density report
DensityEntries(master_result) ==
    IF request.route = "color/compare" THEN Range(master_result.glyphs)
    ELSE UNION {Range(master_result[group].glyphs) :
                    group \in {"uppercase", "lowercase", "figures"}}

\* the master of the font with the id `mid`
MasterById(mid) == CHOOSE m \in Range(font.masters) : m.id = mid

\* the zone height of a glyph on a master, as the density checks choose it
ZoneHeightOf(gname, master) ==
    IF _classify_glyph(font.glyphs[gname]) = "lowercase" THEN master.xHeight
    ELSE master.capHeight

\* the glyphs a density check is asked to measure
DensityScope ==
    IF request.route = "color/compare"
    THEN {g \in Range(request.body.glyphNames) : HasGlyph(font, g)}
    ELSE {g \in DOMAIN font.glyphs : _classify_glyph(font.glyphs[g]) # None}

\* C17, as stated for the colour comparison and the colour audit: a glyph with
\* outlines whose zone height or advance width is zero on an analysed master
\* has an entry in that master's report, and the entry is an explicit
\* invalid-geometry entry without a density.  Violated by the audit, which
\* leaves the glyph out.
C17_InvalidGeometryReported ==
    (Reported /\ request.route \in {"color/compare", "color/audit"}) =>
        \A mid \in DOMAIN response.result.masters :
            \A g \in DensityScope :
                LET layer == font.glyphs[g].layers[mid]
                IN  (/\ layer.outlines
                     /\ (layer.width <= 0 \/ ZoneHeightOf(g, MasterById(mid)) <= 0))
                    => \E e \in DensityEntries(response.result.masters[mid]) :
                          /\ e.glyph = g
                          /\ "density" \notin DOMAIN e
                          /\ e.verdict = "error"
                          /\ e.note = "invalid dimensions"

-----------------------------------------------------------------------------
(* handle_compare_proportions                                              *)
(*                                                                         *)
(* Advance widths are counted in halves of a unit, so that round(w) has    *)
(* something to round; ratios are counted in tenths of a percent, as       *)
(* round(..., 1) leaves them.                                              *)

\* a layer as the width checks read it: layer.width, in halves of a unit
WidthLayer(halves) == [width |-> halves]

\* round(w) of a width given in halves of a unit
PyRound(halves) == RoundHalfEven(halves, 2)

\* the glyph name that is the plain string s
Plain(s) == <<s>>

\* tolerances in tenths of a percent
_WIDTH_GROUPS ==
    << [group |-> "lc_bdpq", members |-> <<"b", "d", "p", "q">>, tolerance |-> 20,
        note |-> "mirrored bowl+stem forms"],
       [group |-> "lc_hn", members |-> <<"h", "n">>, tolerance |-> 10,
        note |-> "arch forms (must match)"],
       [group |-> "uc_OQ", members |-> <<"O", "Q">>, tolerance |-> 20,
        note |-> "Q based on O"],
       [group |-> "uc_HU", members |-> <<"H", "U">>, tolerance |-> 100,
        note |-> "wide straight forms"] >>

\* (wider, narrower, note)
_WIDTH_ORDER ==
    << <<"m", "n", "m must be wider than n">>,
       <<"w", "n", "w must be wider than n">>,
       <<"b", "n", "b must be wider or equal to n">>,
       <<"n", "r", "r must be narrower than n">>,
       <<"n", "i", "i must be narrower than n">>,
       <<"n", "l", "l must be narrower than n">>,
       <<"n", "f", "f must be narrower than n">>,
       <<"n", "t", "t must be narrower than n">>,
       <<"M", "H", "M must be wider than H">>,
       <<"W", "H", "W must be wider than H">>,
       <<"H", "I", "I must be narrower than H">>,
       <<"H", "J", "J must be narrower than H">>,
       <<"H", "L", "L must be narrower than H">>,
       <<"H", "E", "E must be narrower than H">>,
       <<"H", "F", "F must be narrower than H">> >>

\* [min, max] in percent of the reference width
_WIDTH_RANGES ==
    [a |-> <<83, 115>>, b |-> <<100, 115>>, c |-> <<66, 100>>, d |-> <<100, 115>>,
     e |-> <<89, 102>>, f |-> <<53, 82>>, g |-> <<95, 115>>, h |-> <<99, 101>>,
     i |-> <<39, 52>>, j |-> <<39, 60>>, k |-> <<80, 110>>, l |-> <<39, 54>>,
     m |-> <<139, 160>>, n |-> <<100, 100>>, o |-> <<94, 111>>, p |-> <<100, 115>>,
     q |-> <<100, 115>>, r |-> <<56, 74>>, s |-> <<71, 89>>, t |-> <<49, 83>>,
     u |-> <<90, 101>>, v |-> <<82, 101>>, w |-> <<126, 155>>, x |-> <<79, 110>>,
     y |-> <<83, 107>>, z |-> <<76, 94>>,
     A |-> <<89, 109>>, B |-> <<75, 98>>, C |-> <<67, 106>>, D |-> <<90, 102>>,
     E |-> <<72, 88>>, F |-> <<61, 87>>, G |-> <<91, 117>>, H |-> <<100, 100>>,
     I |-> <<34, 51>>, J |-> <<51, 77>>, K |-> <<80, 99>>, L |-> <<53, 78>>,
     M |-> <<117, 143>>, N |-> <<101, 122>>, O |-> <<98, 123>>, P |-> <<68, 94>>,
     Q |-> <<99, 123>>, R |-> <<72, 99>>, S |-> <<69, 89>>, T |-> <<67, 94>>,
     U |-> <<90, 101>>, V |-> <<81, 108>>, W |-> <<125, 155>>, X |-> <<70, 114>>,
     Y |-> <<78, 101>>, Z |-> <<73, 97>>,
     zero |-> <<82, 94>>, one |-> <<38, 67>>, two |-> <<73, 84>>, three |-> <<69, 85>>,
     four |-> <<72, 100>>, five |-> <<72, 86>>, six |-> <<78, 93>>, seven |-> <<66, 88>>,
     eight |-> <<75, 91>>, nine |-> <<78, 93>>]

\* `gname in _WIDTH_RANGES`
InWidthRanges(gname) == Len(gname) = 1 /\ gname[1] \in DOMAIN _WIDTH_RANGES

\* the default glyph list: all lowercase, uppercase and figures
DefaultProportionNames ==
    << "a", "b", "c", "d", "e", "f", "g", "h", "i", "j", "k", "l", "m", "n", "o", "p",
       "q", "r", "s", "t", "u", "v", "w", "x", "y", "z", "A", "B", "C", "D", "E", "F",
       "G", "H", "I", "J", "K", "L", "M", "N", "O", "P", "Q", "R", "S", "T", "U", "V",
       "W", "X", "Y", "Z", "zero", "one", "two", "three", "four", "five", "six",
       "seven", "eight", "nine" >>

\* masters_to_check of the width checks: every master with the id asked for,
\* or all masters
MastersWithId(fnt, master_id) ==
    IF Falsy(master_id) THEN fnt.masters
    ELSE LET IsAsked(m) == m.id = master_id
         IN  SelectSeq(fnt.masters, IsAsked)

\* check_names: the requested names, or the default names, that the font has
CheckNames(fnt, body) ==
    LET Present(g) == HasGlyph(fnt, g)
    IN  IF body = NoBody \/ "glyphNames" \notin DOMAIN body \/ body.glyphNames = <<>>
        THEN SelectSeq([i \in 1..Len(DefaultProportionNames) |->
                            Plain(DefaultProportionNames[i])], Present)
        ELSE SelectSeq(body.glyphNames, Present)

\* the width of a reference glyph on a master, 0 without the glyph
ReferenceWidth(fnt, ref_name, mid) ==
    IF HasGlyph(fnt, Plain(ref_name)) THEN fnt.glyphs[Plain(ref_name)].layers[mid].width
    ELSE 0

\* the name of the reference of a glyph: H for uppercase and figures
WidthRefName(glyph) ==
    IF _classify_glyph(glyph) \in {"uppercase", "figure"} THEN "H" ELSE "n"

WidthRef(glyph, n_w, H_w) == IF WidthRefName(glyph) = "H" THEN H_w ELSE n_w

\* proportions[gname]
Proportion(w, ref, ref_name) ==
    [width |-> PyRound(w), ratio |-> RoundHalfEven(1000 * w, ref),
     ref |-> ref_name, refWidth |-> PyRound(ref)]

\* the dict `proportions` of one master
Proportions(fnt, check_names, mid, n_w, H_w) ==
    [g \in {x \in Range(check_names) : WidthRef(fnt.glyphs[x], n_w, H_w) # 0} |->
        Proportion(fnt.glyphs[g].layers[mid].width,
                   WidthRef(fnt.glyphs[g], n_w, H_w), WidthRefName(fnt.glyphs[g]))]

\* the members of a group that were measured
MeasuredMembers(ginfo, proportions) ==
    LET Measured(s) == Plain(s) \in DOMAIN proportions
    IN  SelectSeq(ginfo.members, Measured)

SetMax(S) == CHOOSE x \in S : \A y \in S : x >= y

\* the entry of group_results for a group with the measured members `members`
GroupResult(ginfo, members, proportions) ==
    [group |-> ginfo.group,
     note |-> ginfo.note,
     members |-> [s \in Range(members) |-> proportions[Plain(s)].ratio],
     widths |-> [s \in Range(members) |-> proportions[Plain(s)].width],
     spread |-> SetMax({proportions[Plain(s)].ratio : s \in Range(members)})
                - SetMin({proportions[Plain(s)].ratio : s \in Range(members)}),
     tolerance |-> ginfo.tolerance,
     verdict |-> IF SetMax({proportions[Plain(s)].ratio : s \in Range(members)})
                    - SetMin({proportions[Plain(s)].ratio : s \in Range(members)})
                    <= ginfo.tolerance
                 THEN "pass" ELSE "inconsistent"]

RECURSIVE GroupResultsFrom(_, _)
GroupResultsFrom(infos, proportions) ==
    IF infos = <<>> THEN <<>>
    ELSE IF Len(MeasuredMembers(Head(infos), proportions)) < 2
    THEN GroupResultsFrom(Tail(infos), proportions)
    ELSE <<GroupResult(Head(infos), MeasuredMembers(Head(infos), proportions),
                       proportions)>>
         \o GroupResultsFrom(Tail(infos), proportions)

\* sorted_ratios[len(sorted_ratios) // 2][1]
MedianRatio(ratios) ==
    SortAscending(ratios)[(Len(ratios) \div 2) + 1]

\* the members of an inconsistent group that are marked red: those whose ratio
\* is further from the median ratio than the tolerance
GroupOutliers(group_result) ==
    LET names == DOMAIN group_result.members
        order == CHOOSE seq \in [1..Cardinality(names) -> names] : Range(seq) = names
        median_r == MedianRatio([i \in 1..Len(order) |-> group_result.members[order[i]]])
    IN  IF group_result.verdict # "inconsistent" THEN {}
        ELSE {Plain(s) : s \in {x \in names :
                Abs(group_result.members[x] - median_r) > group_result.tolerance}}

\* `ok = w_w >= n_w_val`
OrderOk(w_w, n_w_val) == w_w >= n_w_val

\* the entry of order_results for a constraint that is violated
OrderViolation(constraint, proportions) ==
    [wider |-> constraint[1],
     narrower |-> constraint[2],
     widerWidth |-> proportions[Plain(constraint[1])].width,
     narrowerWidth |-> proportions[Plain(constraint[2])].width,
     note |-> constraint[3],
     verdict |-> "violation"]

RECURSIVE OrderResultsFrom(_, _)
OrderResultsFrom(constraints, proportions) ==
    IF constraints = <<>> THEN <<>>
    ELSE LET c == Head(constraints)
         IN  IF \/ Plain(c[1]) \notin DOMAIN proportions
                \/ Plain(c[2]) \notin DOMAIN proportions
                \/ OrderOk(proportions[Plain(c[1])].width, proportions[Plain(c[2])].width)
             THEN OrderResultsFrom(Tail(constraints), proportions)
             ELSE <<OrderViolation(c, proportions)>>
                  \o OrderResultsFrom(Tail(constraints), proportions)

\* `ratio < lo or ratio > hi`, the ratio in tenths of a percent
OutsideRange(gname, ratio) ==
    \/ ratio < 10 * _WIDTH_RANGES[gname[1]][1]
    \/ ratio > 10 * _WIDTH_RANGES[gname[1]][2]

\* a list without the repetitions of its elements, as the keys of a dict are
RECURSIVE Keys(_)
Keys(seq) ==
    IF seq = <<>> THEN <<>>
    ELSE LET front == Keys(SubSeq(seq, 1, Len(seq) - 1))
         IN  IF seq[Len(seq)] \in Range(front) THEN front
             ELSE front \o <<seq[Len(seq)]>>

RangeOutlier(gname, proportions) ==
    [glyph |-> gname,
     ratio |-> proportions[gname].ratio,
     range |-> _WIDTH_RANGES[gname[1]],
     verdict |-> "outside_range"]

RECURSIVE RangeResultsFrom(_, _)
RangeResultsFrom(names, proportions) ==
    IF names = <<>> THEN <<>>
    ELSE IF /\ Head(names) \in DOMAIN proportions
            /\ InWidthRanges(Head(names))
            /\ OutsideRange(Head(names), proportions[Head(names)].ratio)
    THEN <<RangeOutlier(Head(names), proportions)>>
         \o RangeResultsFrom(Tail(names), proportions)
    ELSE RangeResultsFrom(Tail(names), proportions)

\* cross["n/H"] and cross["o/O"]
CrossCase(fnt, mid, n_w, H_w) ==
    (IF n_w # 0 /\ H_w # 0 THEN "n/H" :> RoundHalfEven(1000 * n_w, H_w) ELSE <<>>)
    @@ (IF /\ HasGlyph(fnt, Plain("o"))
           /\ HasGlyph(fnt, Plain("O"))
           /\ fnt.glyphs[Plain("O")].layers[mid].width # 0
        THEN "o/O" :> RoundHalfEven(1000 * fnt.glyphs[Plain("o")].layers[mid].width,
                                    fnt.glyphs[Plain("O")].layers[mid].width)
        ELSE <<>>)

InconsistentGroups(group_results) ==
    LET IsInconsistent(g) == g.verdict = "inconsistent"
    IN  SelectSeq(group_results, IsInconsistent)

\* all_masters_results[mid] of a master with a reference
ProportionReport(master, n_w, H_w, cross, proportions, group_results, order_results, range_results) ==
    [masterName |-> master.name,
     references |-> [n |-> PyRound(n_w), H |-> PyRound(H_w)],
     crossCase |-> cross,
     proportions |-> proportions,
     groups |-> group_results,
     orderViolations |-> order_results,
     rangeOutliers |-> range_results,
     summary |-> [glyphsChecked |-> Cardinality(DOMAIN proportions),
                  groupIssues |-> Len(InconsistentGroups(group_results)),
                  orderViolations |-> Len(order_results),
                  rangeOutliers |-> Len(range_results)]]

MeasuredProportions(fnt, check_names, master, n_w, H_w, proportions) ==
    ProportionReport(master, n_w, H_w, CrossCase(fnt, master.id, n_w, H_w), proportions,
        GroupResultsFrom(_WIDTH_GROUPS, proportions),
        OrderResultsFrom(_WIDTH_ORDER, proportions),
        RangeResultsFrom(Keys(check_names), proportions))

\* all_masters_results[mid]
ProportionsOfMaster(fnt, check_names, master, n_w, H_w) ==
    IF n_w = 0 /\ H_w = 0
    THEN [masterName |-> master.name, error |-> "No reference glyphs (n, H) found"]
    ELSE MeasuredProportions(fnt, check_names, master, n_w, H_w,
            Proportions(fnt, check_names, master.id, n_w, H_w))

_proportions_master(fnt, check_names, master) ==
    ProportionsOfMaster(fnt, check_names, master,
        ReferenceWidth(fnt, "n", master.id), ReferenceWidth(fnt, "H", master.id))

\* the colours the passes over one master offer to worst_colors[gname]: 0 for
\* an outlier of an inconsistent group and for both glyphs of an order
\* violation, 3 outside the industry range, 4 inside it
ProportionMarks(result, gname) ==
    IF "proportions" \notin DOMAIN result THEN {}
    ELSE (IF \E i \in 1..Len(result.groups) : gname \in GroupOutliers(result.groups[i])
          THEN {0} ELSE {})
         \cup
         (IF \E i \in 1..Len(result.orderViolations) :
                gname \in {Plain(result.orderViolations[i].wider),
                           Plain(result.orderViolations[i].narrower)}
          THEN {0} ELSE {})
         \cup
         (IF gname \in DOMAIN result.proportions /\ InWidthRanges(gname)
          THEN IF OutsideRange(gname, result.proportions[gname].ratio) THEN {3} ELSE {4}
          ELSE {})

\* worst_colors after all masters: every pass lowers the entry of a glyph to
\* the colour it offers, and never raises it
WorstColors(results, names) ==
    [g \in {x \in names : \E mid \in DOMAIN results : ProportionMarks(results[mid], x) # {}}
        |-> SetMin(UNION {ProportionMarks(results[mid], g) : mid \in DOMAIN results})]

ProportionResults(fnt, check_names, masters_to_check) ==
    [mid \in {masters_to_check[i].id : i \in 1..Len(masters_to_check)} |->
        _proportions_master(fnt, check_names,
            CHOOSE m \in Range(masters_to_check) : m.id = mid)]

\* the answer of a width check whose masters are analysed: the only master's
\* result, or the results by master id
WidthCheckAnswer(colors, masters_to_check, all_masters_results, worst_colors) ==
    [status |-> 200,
     result |-> IF Len(masters_to_check) = 1
                THEN [ok |-> TRUE] @@ all_masters_results[masters_to_check[1].id]
                ELSE [ok |-> TRUE, masters |-> all_masters_results],
     colors |-> MarkWorst(colors, worst_colors)]

CompareProportions(fnt, colors, check_names, masters_to_check, all_masters_results) ==
    WidthCheckAnswer(colors, masters_to_check, all_masters_results,
        WorstColors(all_masters_results, Range(check_names)))

\* `return 400, result` for a result with "error" and without "ok"
WidthCheckError(colors, message) ==
    [status |-> 400, result |-> [error |-> message], colors |-> colors]

\* the status and result of the handler, and the glyph colours it leaves
handle_compare_proportions(fnt, colors, body) ==
    IF fnt = NoFont THEN WidthCheckError(colors, "No font open")
    ELSE IF ~Falsy(BodyMasterId(body)) /\ MastersWithId(fnt, BodyMasterId(body)) = <<>>
    THEN WidthCheckError(colors, "Master not found")
    ELSE CompareProportions(fnt, colors, CheckNames(fnt, body),
            MastersWithId(fnt, BodyMasterId(body)),
            ProportionResults(fnt, CheckNames(fnt, body),
                MastersWithId(fnt, BodyMasterId(body))))

-----------------------------------------------------------------------------
(* The proportion check applied to bounded fonts and requests              *)

\* a master as the width checks read it
WidthMaster(id, name) == [id |-> id, name |-> name]

WidthMasterLists(n) == {[i \in 1..n |-> WidthMaster(CheckMasterIds[i], "Regular")]}

\* the glyphs a font may hold and the advance widths, in halves of a unit, a
\* layer of each may have: 1001 is 500.5 units
ProportionWidths(n) ==
    IF n = 1
    THEN (Plain("n") :> {0, 1000, 1001}) @@ (Plain("m") :> {1000, 1001, 1002, 1400})
         @@ (Plain("b") :> {1000, 1040, 1100}) @@ (Plain("d") :> {1040})
         @@ (Plain("H") :> {0, 1400}) @@ (Plain("I") :> {600, 1500})
    ELSE (Plain("n") :> {1000, 1001}) @@ (Plain("m") :> {1000, 1002, 1400})

\* every choice of glyphs among `names`, each with a layer per master whose
\* width is one of widths[name]
RECURSIVE WidthGlyphsOfFont(_, _, _)
WidthGlyphsOfFont(n, widths, names) ==
    IF names = {} THEN {<<>>}
    ELSE LET g == CHOOSE x \in names : TRUE
             rest == WidthGlyphsOfFont(n, widths, names \ {g})
         IN  rest \cup
             {(g :> (GlyphData(g) @@ [layers |-> [mid \in DOMAIN ws |-> WidthLayer(ws[mid])]]))
                    @@ r :
                 ws \in [{CheckMasterIds[i] : i \in 1..n} -> widths[g]],
                 r \in rest}

ProportionFonts ==
    UNION {{[masters |-> ms, glyphs |-> gs] :
                ms \in WidthMasterLists(n),
                gs \in WidthGlyphsOfFont(n, ProportionWidths(n), DOMAIN ProportionWidths(n))} :
           n \in 1..Len(CheckMasterIds)}

ProportionBodies ==
    {NoBody} \cup
    {[masterId |-> mid] : mid \in {"", "m2", "zz"}} \cup
    {[glyphNames |-> gl, masterId |-> mid] :
        gl \in {<<Plain("m"), Plain("n")>>,
                <<Plain("b"), Plain("zz"), Plain("d"), Plain("n"), Plain("b")>>},
        mid \in {None, "m1", "zz"}}

InitProportions ==
    /\ StemIdle
    /\ SysIdle
    /\ DomIdle
    /\ font \in ProportionFonts
    /\ glyphColor = [g \in DOMAIN font.glyphs |-> NoValue]
    /\ request \in {Call("proportions/compare", b) : b \in ProportionBodies}
    /\ response = Pending

HandleCompareProportions ==
    /\ request.route = "proportions/compare"
    /\ response = Pending
    /\ LET out == handle_compare_proportions(font, glyphColor, request.body)
       IN  /\ response' = [status |-> out.status, result |-> out.result]
           /\ glyphColor' = out.colors
    /\ UNCHANGED <<font, request, stemVars, domVars, sysVars>>

ProportionsNext == HandleCompareProportions

SpecProportions == InitProportions /\ [][ProportionsNext]_vars

-----------------------------------------------------------------------------
(* Properties of the proportion check                                      *)

\* the check answered with the results of the masters it analysed
WidthsReported == response.status = 200 /\ "ok" \in DOMAIN response.result

\* the results by master id, of one master or of several
ResultsByMaster ==
    IF "masters" \in DOMAIN response.result THEN response.result.masters
    ELSE MastersWithId(font, BodyMasterId(request.body))[1].id :> response.result

\* the constraints of _WIDTH_ORDER whose two glyphs are measured on a master
MeasuredConstraints(result) ==
    {c \in Range(_WIDTH_ORDER) :
        /\ "proportions" \in DOMAIN result
        /\ Plain(c[1]) \in DOMAIN result.proportions
        /\ Plain(c[2]) \in DOMAIN result.proportions}

ViolationReported(result, c) ==
    \E i \in 1..Len(result.orderViolations) :
        /\ result.orderViolations[i].wider = c[1]
        /\ result.orderViolations[i].narrower = c[2]

\* C19, as stated: for every ordering constraint whose two glyphs are measured
\* on a master, an order violation is reported, and both glyphs are marked
\* with colour 0, exactly when the wider glyph's advance width is not greater
\* than the narrower glyph's.  Violated: with equal widths nothing is reported.
C19_OrderViolationWhenNotWider ==
    (request.route = "proportions/compare" /\ WidthsReported) =>
        \A mid \in DOMAIN ResultsByMaster :
            \A c \in MeasuredConstraints(ResultsByMaster[mid]) :
                /\ ViolationReported(ResultsByMaster[mid], c)
                   <=> ~(font.glyphs[Plain(c[1])].layers[mid].width
                            > font.glyphs[Plain(c[2])].layers[mid].width)
                /\ ViolationReported(ResultsByMaster[mid], c)
                   => /\ glyphColor[Plain(c[1])] = Some(0)
                      /\ glyphColor[Plain(c[2])] = Some(0)

\* what the check does: a violation is reported exactly when the rounded
\* width of the wider glyph is smaller than the rounded width of the narrower
\* glyph, and then both glyphs are marked with colour 0
OrderViolationWhenNarrower ==
    (request.route = "proportions/compare" /\ WidthsReported) =>
        \A mid \in DOMAIN ResultsByMaster :
            \A c \in MeasuredConstraints(ResultsByMaster[mid]) :
                /\ ViolationReported(ResultsByMaster[mid], c)
                   <=> PyRound(font.glyphs[Plain(c[1])].layers[mid].width)
                          < PyRound(font.glyphs[Plain(c[2])].layers[mid].width)
                /\ ViolationReported(ResultsByMaster[mid], c)
                   => /\ glyphColor[Plain(c[1])] = Some(0)
                      /\ glyphColor[Plain(c[2])] = Some(0)

-----------------------------------------------------------------------------
(* handle_check_related_forms                                              *)

\* width_a / width_b * 100 is expected in `range`, in percent
_RELATED_FORM_PAIRS ==
    << [a |-> "six", b |-> "nine", range |-> <<97, 104>>, severity |-> "high",
        note |-> "rotated forms - should match width"],
       [a |-> "zero", b |-> "O", range |-> <<65, 93>>, severity |-> "medium",
        note |-> "zero narrower and lighter than O"],
       [a |-> "three", b |-> "five", range |-> <<92, 106>>, severity |-> "medium",
        note |-> "related open-bowl figures"],
       [a |-> "three", b |-> "B", range |-> <<78, 99>>, severity |-> "medium",
        note |-> "three narrower than B (double bowls)"],
       [a |-> "eight", b |-> "S", range |-> <<92, 119>>, severity |-> "low",
        note |-> "8 related to S-shape"],
       [a |-> "one", b |-> "I", range |-> <<106, 185>>, severity |-> "low",
        note |-> "one wider than I (flag and crossbar add width)"] >>

\* `lo <= ratio <= hi` for ratio = w_a / w_b * 100 and w_b > 0
RatioInRange(w_a, w_b, range) ==
    range[1] * w_b <= 100 * w_a /\ 100 * w_a <= range[2] * w_b

\* every severity treated as "high"
AlwaysInconsistent(severity, inside) ==
    IF inside THEN [verdict |-> "pass", color |-> 4]
    ELSE [verdict |-> "inconsistent", color |-> 0]

\* the verdict of a pair and the colour it offers to its two glyphs; -1 marks
\* nothing
SeverityVerdict(severity, inside) ==
    IF inside THEN [verdict |-> "pass", color |-> 4]
    ELSE IF severity = "high" THEN [verdict |-> "inconsistent", color |-> 0]
    ELSE IF severity = "medium" THEN [verdict |-> "warning", color |-> 3]
    ELSE [verdict |-> "info", color |-> -1]

\* the entry of pair_results for a pair with widths w_a and w_b, in halves of
\* a unit; the "pair" is the two names, widths are in tenths of a unit and the
\* ratio in tenths of a percent
PairResult(pair, w_a, w_b) ==
    [pair |-> <<pair.a, pair.b>>,
     widthA |-> 5 * w_a,
     widthB |-> 5 * w_b,
     ratio |-> RoundHalfEven(1000 * w_a, w_b),
     expected |-> pair.range,
     verdict |-> SeverityVerdict(pair.severity, RatioInRange(w_a, w_b, pair.range)).verdict,
     severity |-> pair.severity,
     note |-> pair.note]

\* pair_results of one master: the pairs whose two glyphs the font has and
\* whose second glyph has a width
RECURSIVE PairResultsFrom(_, _, _)
PairResultsFrom(pairs, fnt, mid) ==
    IF pairs = <<>> THEN <<>>
    ELSE IF \/ ~HasGlyph(fnt, Plain(Head(pairs).a))
            \/ ~HasGlyph(fnt, Plain(Head(pairs).b))
    THEN PairResultsFrom(Tail(pairs), fnt, mid)
    ELSE IF fnt.glyphs[Plain(Head(pairs).b)].layers[mid].width = 0
    THEN PairResultsFrom(Tail(pairs), fnt, mid)
    ELSE <<PairResult(Head(pairs),
                      fnt.glyphs[Plain(Head(pairs).a)].layers[mid].width,
                      fnt.glyphs[Plain(Head(pairs).b)].layers[mid].width)>>
         \o PairResultsFrom(Tail(pairs), fnt, mid)

\* verdicts.count(verdict)
CountVerdict(pair_results, verdict) ==
    Cardinality({i \in 1..Len(pair_results) : pair_results[i].verdict = verdict})

RelatedFormsReport(master, pair_results) ==
    [masterName |-> master.name,
     pairs |-> pair_results,
     summary |-> [pass |-> CountVerdict(pair_results, "pass"),
                  inconsistent |-> CountVerdict(pair_results, "inconsistent"),
                  warning |-> CountVerdict(pair_results, "warning"),
                  info |-> CountVerdict(pair_results, "info")]]

_related_forms_master(fnt, master) ==
    RelatedFormsReport(master, PairResultsFrom(_RELATED_FORM_PAIRS, fnt, master.id))

\* the colour of an entry of pair_results
PairColor(entry) ==
    SeverityVerdict(entry.severity, entry.verdict = "pass").color

\* the colours the pairs of one master offer to worst_colors[gname]
PairMarks(result, gname) ==
    {PairColor(result.pairs[i]) :
        i \in {j \in 1..Len(result.pairs) :
                 /\ gname \in {Plain(result.pairs[j].pair[1]), Plain(result.pairs[j].pair[2])}
                 /\ PairColor(result.pairs[j]) >= 0}}

\* worst_colors after all masters: the smallest colour offered to each glyph
WorstPairColors(fnt, results) ==
    [g \in {x \in DOMAIN fnt.glyphs : \E mid \in DOMAIN results : PairMarks(results[mid], x) # {}}
        |-> SetMin(UNION {PairMarks(results[mid], g) : mid \in DOMAIN results})]

RelatedFormsResults(fnt, masters_to_check) ==
    [mid \in {masters_to_check[i].id : i \in 1..Len(masters_to_check)} |->
        _related_forms_master(fnt, CHOOSE m \in Range(masters_to_check) : m.id = mid)]

CheckRelatedForms(fnt, colors, masters_to_check, all_masters_results) ==
    WidthCheckAnswer(colors, masters_to_check, all_masters_results,
        WorstPairColors(fnt, all_masters_results))

\* the status and result of the handler, and the glyph colours it leaves
handle_check_related_forms(fnt, colors, body) ==
    IF MastersWithId(fnt, BodyMasterId(body)) = <<>>
    THEN WidthCheckError(colors, "Master not found")
    ELSE CheckRelatedForms(fnt, colors, MastersWithId(fnt, BodyMasterId(body)),
            RelatedFormsResults(fnt, MastersWithId(fnt, BodyMasterId(body))))

-----------------------------------------------------------------------------
(* The related-forms check applied to bounded fonts and requests           *)

\* advance widths in halves of a unit: six 600 against nine 620 is 1200
\* against 1240, and 1164 is 97 percent of 1200
RelatedWidths(n) ==
    IF n = 1
    THEN (Plain("six") :> {1200, 1164}) @@ (Plain("nine") :> {0, 1200, 1240})
         @@ (Plain("zero") :> {1000}) @@ (Plain("O") :> {1000, 1400})
         @@ (Plain("eight") :> {1000}) @@ (Plain("S") :> {800, 1000})
         @@ (Plain("three") :> {1000}) @@ (Plain("B") :> {1000, 1100})
    ELSE (Plain("six") :> {1200, 1164}) @@ (Plain("nine") :> {1200, 1240})
         @@ (Plain("eight") :> {1000}) @@ (Plain("S") :> {800, 1000})

RelatedFonts ==
    UNION {{[masters |-> ms, glyphs |-> gs] :
                ms \in WidthMasterLists(n),
                gs \in WidthGlyphsOfFont(n, RelatedWidths(n), DOMAIN RelatedWidths(n))} :
           n \in 1..Len(CheckMasterIds)}

RelatedBodies == {NoBody} \cup {[masterId |-> mid] : mid \in {"", "m1", "m2", "zz"}}

InitRelated ==
    /\ StemIdle
    /\ SysIdle
    /\ DomIdle
    /\ font \in RelatedFonts
    /\ glyphColor = [g \in DOMAIN font.glyphs |-> NoValue]
    /\ request \in {Call("related-forms/check", b) : b \in RelatedBodies}
    /\ response = Pending

HandleCheckRelatedForms ==
    /\ request.route = "related-forms/check"
    /\ response = Pending
    /\ LET out == handle_check_related_forms(font, glyphColor, request.body)
       IN  /\ response' = [status |-> out.status, result |-> out.result]
           /\ glyphColor' = out.colors
    /\ UNCHANGED <<font, request, stemVars, domVars, sysVars>>

RelatedNext == HandleCheckRelatedForms

SpecRelated == InitRelated /\ [][RelatedNext]_vars

-----------------------------------------------------------------------------
(* Properties of the related-forms check                                   *)

\* the table pairs evaluated on a master: both glyphs present, width(b) # 0
EvaluatedPairs(mid) ==
    {p \in Range(_RELATED_FORM_PAIRS) :
        /\ HasGlyph(font, Plain(p.a))
        /\ HasGlyph(font, Plain(p.b))
        /\ font.glyphs[Plain(p.b)].layers[mid].width # 0}

\* whether width(a) / width(b) x 100 lies in the pair's [lo, hi] on a master
PairInside(p, mid) ==
    LET w_a == font.glyphs[Plain(p.a)].layers[mid].width
        w_b == font.glyphs[Plain(p.b)].layers[mid].width
    IN  p.range[1] * w_b <= 100 * w_a /\ 100 * w_a <= p.range[2] * w_b

\* the verdict the rule gives a pair on a master
RuleVerdict(p, mid) ==
    IF PairInside(p, mid) THEN "pass"
    ELSE IF p.severity = "high" THEN "inconsistent"
    ELSE IF p.severity = "medium" THEN "warning"
    ELSE "info"

\* the colours the rule offers a glyph over all analysed masters
RuleColors(g) ==
    {CASE RuleVerdict(pm[1], pm[2]) = "pass" -> 4
       [] RuleVerdict(pm[1], pm[2]) = "inconsistent" -> 0
       [] OTHER -> 3 :
        pm \in {x \in Range(_RELATED_FORM_PAIRS) \X DOMAIN ResultsByMaster :
                  /\ x[1] \in EvaluatedPairs(x[2])
                  /\ g \in {Plain(x[1].a), Plain(x[1].b)}
                  /\ RuleVerdict(x[1], x[2]) # "info"}}

\* C18: every table pair with both glyphs present and width(b) # 0 has one
\* entry per analysed master whose verdict follows from the unscaled ratio and
\* the severity (pass inside the range; outside it inconsistent for high,
\* warning for medium, info for low), and every glyph ends with the smallest
\* of the colours 4, 0 and 3 its pass, inconsistent and warning pairs give it,
\* an info pair giving none
C18_RelatedFormsVerdict ==
    (request.route = "related-forms/check" /\ WidthsReported) =>
        /\ \A mid \in DOMAIN ResultsByMaster :
              /\ \A p \in EvaluatedPairs(mid) :
                    /\ Cardinality({i \in 1..Len(ResultsByMaster[mid].pairs) :
                          ResultsByMaster[mid].pairs[i].pair = <<p.a, p.b>>}) = 1
                    /\ \A i \in 1..Len(ResultsByMaster[mid].pairs) :
                          ResultsByMaster[mid].pairs[i].pair = <<p.a, p.b>>
                          => ResultsByMaster[mid].pairs[i].verdict = RuleVerdict(p, mid)
              /\ Len(ResultsByMaster[mid].pairs) = Cardinality(EvaluatedPairs(mid))
        /\ \A g \in DOMAIN glyphColor :
              glyphColor[g] = IF RuleColors(g) = {} THEN NoValue
                              ELSE Some(SetMin(RuleColors(g)))

\* six at 600 and nine at 620 on the only master: 96.8 percent, below 97, and
\* both glyphs red
C18_Witness ==
    /\ request.route = "related-forms/check"
    /\ WidthsReported
    /\ Len(font.masters) = 1
    /\ HasGlyph(font, Plain("six")) /\ HasGlyph(font, Plain("nine"))
    /\ font.glyphs[Plain("six")].layers["m1"].width = 1200
    /\ font.glyphs[Plain("nine")].layers["m1"].width = 1240
    /\ \E i \in 1..Len(response.result.pairs) :
          /\ response.result.pairs[i].pair = <<"six", "nine">>
          /\ response.result.pairs[i].ratio = 968
          /\ response.result.pairs[i].verdict = "inconsistent"
    /\ glyphColor[Plain("six")] = Some(0)
    /\ glyphColor[Plain("nine")] = Some(0)
    /\ \E g \in DOMAIN glyphColor : glyphColor[g] = Some(3)

-----------------------------------------------------------------------------
(* _measure_junction_thinning and handle_check_junctions                   *)
(*                                                                         *)
(* A layer carries the profile the ray sweep collects on it: the pairs     *)
(* (y, stem width) of the rays that met a stem.  Thinning is counted in    *)
(* tenths of a percent.                                                    *)

\* x_pct, in percent of the width, of the stem the sweep tracks
_JUNCTION_GLYPHS ==
    [n |-> 15, h |-> 15, m |-> 10, u |-> 15, a |-> 85, b |-> 15, d |-> 85,
     p |-> 15, q |-> 85]

\* the keys of _JUNCTION_GLYPHS in the order of the dict
JunctionNames == <<"n", "h", "m", "u", "a", "b", "d", "p", "q">>

\* tolerance in tenths of a percent
_JUNCTION_GROUPS ==
    << [group |-> "arch", members |-> <<"n", "m">>, tolerance |-> 50,
        note |-> "arch junction thinning"] >>

JunctionLayer(profile) == [profile |-> profile]

JunctionMaster(id, name, xHeight) == [id |-> id, name |-> name, xHeight |-> xHeight]

\* the entries of the profile with zone_top * lo/100 <= y <= zone_top * hi/100
ZoneOf(profile, zone_top, lo, hi) ==
    LET InZone(e) == zone_top * lo <= 100 * e[1] /\ 100 * e[1] <= zone_top * hi
    IN  SelectSeq(profile, InZone)

SumWidths(zone) == SumOver(1..Len(zone), [i \in 1..Len(zone) |-> zone[i][2]])

\* the result for a mid zone and an upper zone that are not empty: None for a
\* mean mid-stem width under 5
ThinningOf(mid_zone, upper_zone) ==
    IF SumWidths(mid_zone) < 5 * Len(mid_zone) THEN NoValue
    ELSE Some([midStem |-> RoundHalfEven(10 * SumWidths(mid_zone), Len(mid_zone)),
               junctionMin |-> 10 * SetMin({upper_zone[i][2] : i \in 1..Len(upper_zone)}),
               junctionY |->
                   upper_zone[SetMin({i \in 1..Len(upper_zone) :
                       upper_zone[i][2]
                         = SetMin({upper_zone[j][2] : j \in 1..Len(upper_zone)})})][1],
               thinning |->
                   RoundHalfEven(
                       1000 * SetMin({upper_zone[i][2] : i \in 1..Len(upper_zone)})
                           * Len(mid_zone),
                       SumWidths(mid_zone))])

_measure_junction_thinning(layer, zone_top) ==
    IF Len(layer.profile) < 5 THEN NoValue
    ELSE IF ZoneOf(layer.profile, zone_top, 20, 60) = <<>> THEN NoValue
    ELSE IF ZoneOf(layer.profile, zone_top, 65, 95) = <<>> THEN NoValue
    ELSE ThinningOf(ZoneOf(layer.profile, zone_top, 20, 60),
                    ZoneOf(layer.profile, zone_top, 65, 95))

\* check_names: the glyphs of _JUNCTION_GLYPHS, requested or all, that the
\* font has
JunctionCheckNames(fnt, body) ==
    LET Present(g) == HasGlyph(fnt, g)
        Checked(g) == HasGlyph(fnt, g) /\ Len(g) = 1 /\ g[1] \in DOMAIN _JUNCTION_GLYPHS
    IN  IF body = NoBody \/ "glyphNames" \notin DOMAIN body \/ body.glyphNames = <<>>
        THEN SelectSeq([i \in 1..Len(JunctionNames) |-> Plain(JunctionNames[i])], Present)
        ELSE SelectSeq(body.glyphNames, Checked)

\* jct_results[gname]
JunctionEntry(layer, zone_top) ==
    IF _measure_junction_thinning(layer, zone_top) = NoValue
    THEN [error |-> "no measurement"]
    ELSE _measure_junction_thinning(layer, zone_top)[1]

JunctionResults(fnt, check_names, master) ==
    [g \in Range(check_names) |->
        JunctionEntry(fnt.glyphs[g].layers[master.id], master.xHeight)]

\* the members of a group with a thinning value
ThinningMembers(ginfo, jct_results) ==
    LET Measured(s) ==
            Plain(s) \in DOMAIN jct_results /\ "thinning" \in DOMAIN jct_results[Plain(s)]
    IN  SelectSeq(ginfo.members, Measured)

\* any difference between the members counted as an inconsistency
NoSpreadAllowed(spread, tol) == IF spread <= 0 THEN "pass" ELSE "inconsistent"

\* `"pass" if spread <= ginfo["tolerance"] else "inconsistent"`
SpreadVerdict(spread, tol) == IF spread <= tol THEN "pass" ELSE "inconsistent"

JunctionSpread(members, jct_results) ==
    SetMax({jct_results[Plain(s)].thinning : s \in Range(members)})
    - SetMin({jct_results[Plain(s)].thinning : s \in Range(members)})

JunctionGroupResult(ginfo, members, jct_results) ==
    [group |-> ginfo.group,
     note |-> ginfo.note,
     members |-> [s \in Range(members) |-> jct_results[Plain(s)].thinning],
     spread |-> JunctionSpread(members, jct_results),
     tolerance |-> ginfo.tolerance,
     verdict |-> SpreadVerdict(JunctionSpread(members, jct_results), ginfo.tolerance)]

RECURSIVE JunctionGroupsFrom(_, _)
JunctionGroupsFrom(infos, jct_results) ==
    IF infos = <<>> THEN <<>>
    ELSE IF Len(ThinningMembers(Head(infos), jct_results)) < 2
    THEN JunctionGroupsFrom(Tail(infos), jct_results)
    ELSE <<JunctionGroupResult(Head(infos), ThinningMembers(Head(infos), jct_results),
                               jct_results)>>
         \o JunctionGroupsFrom(Tail(infos), jct_results)

JunctionReport(master, jct_results, group_results) ==
    [masterName |-> master.name,
     junctions |-> jct_results,
     groups |-> group_results,
     summary |-> [glyphsChecked |-> Cardinality(DOMAIN jct_results),
                  groupIssues |-> Len(InconsistentGroups(group_results))]]

JunctionsOfMaster(master, jct_results) ==
    JunctionReport(master, jct_results, JunctionGroupsFrom(_JUNCTION_GROUPS, jct_results))

_junctions_master(fnt, check_names, master) ==
    JunctionsOfMaster(master, JunctionResults(fnt, check_names, master))

\* the colours one master offers to worst_colors[gname]: 0 to the members of
\* an inconsistent group, 4 to every glyph with a thinning value
JunctionMarks(result, gname) ==
    (IF \E i \in 1..Len(result.groups) :
            /\ result.groups[i].verdict = "inconsistent"
            /\ gname \in {Plain(s) : s \in DOMAIN result.groups[i].members}
     THEN {0} ELSE {})
    \cup
    (IF gname \in DOMAIN result.junctions /\ "thinning" \in DOMAIN result.junctions[gname]
     THEN {4} ELSE {})

WorstJunctionColors(results, names) ==
    [g \in {x \in names : \E mid \in DOMAIN results : JunctionMarks(results[mid], x) # {}}
        |-> SetMin(UNION {JunctionMarks(results[mid], g) : mid \in DOMAIN results})]

AllJunctionResults(fnt, check_names, masters_to_check) ==
    [mid \in {masters_to_check[i].id : i \in 1..Len(masters_to_check)} |->
        _junctions_master(fnt, check_names,
            CHOOSE m \in Range(masters_to_check) : m.id = mid)]

CheckJunctions(fnt, colors, check_names, masters_to_check, all_masters_results) ==
    WidthCheckAnswer(colors, masters_to_check, all_masters_results,
        WorstJunctionColors(all_masters_results, Range(check_names)))

\* the status and result of the handler, and the glyph colours it leaves
handle_check_junctions(fnt, colors, body) ==
    IF fnt = NoFont THEN WidthCheckError(colors, "No font open")
    ELSE IF ~Falsy(BodyMasterId(body)) /\ MastersWithId(fnt, BodyMasterId(body)) = <<>>
    THEN WidthCheckError(colors, "Master not found")
    ELSE CheckJunctions(fnt, colors, JunctionCheckNames(fnt, body),
            MastersWithId(fnt, BodyMasterId(body)),
            AllJunctionResults(fnt, JunctionCheckNames(fnt, body),
                MastersWithId(fnt, BodyMasterId(body))))

-----------------------------------------------------------------------------
(* The junction check applied to bounded fonts and requests                *)

\* profiles for an x-height of 500: a stem of 100 in the mid zone and a
\* junction of 100, 95, 94 or 80 at y = 450; Short has too few rays
Thin100 == JunctionLayer(<< <<0, 100>>, <<100, 100>>, <<200, 100>>, <<300, 100>>,
                            <<400, 100>>, <<450, 100>> >>)
Thin95 == JunctionLayer(<< <<0, 100>>, <<100, 100>>, <<200, 100>>, <<300, 100>>,
                           <<400, 100>>, <<450, 95>> >>)
Thin94 == JunctionLayer(<< <<0, 100>>, <<100, 100>>, <<200, 100>>, <<300, 100>>,
                           <<400, 100>>, <<450, 94>> >>)
Thin80 == JunctionLayer(<< <<0, 100>>, <<100, 100>>, <<200, 100>>, <<300, 100>>,
                           <<400, 80>>, <<450, 90>> >>)
Short == JunctionLayer(<< <<100, 100>>, <<450, 60>> >>)

JunctionLayers(n) ==
    IF n = 1
    THEN (Plain("n") :> {Thin100, Thin80, Short})
         @@ (Plain("m") :> {Thin100, Thin95, Thin94, Thin80})
         @@ (Plain("h") :> {Thin100, Thin80}) @@ (Plain("b") :> {Thin94, Short})
         @@ (Plain("o") :> {Thin80})
    ELSE (Plain("n") :> {Thin100, Thin94}) @@ (Plain("m") :> {Thin100, Thin95})
         @@ (Plain("h") :> {Thin80})

RECURSIVE GlyphsWithLayers(_, _, _)
GlyphsWithLayers(n, layers, names) ==
    IF names = {} THEN {<<>>}
    ELSE LET g == CHOOSE x \in names : TRUE
             rest == GlyphsWithLayers(n, layers, names \ {g})
         IN  rest \cup
             {(g :> (GlyphData(g) @@ [layers |-> ls])) @@ r :
                 ls \in [{CheckMasterIds[i] : i \in 1..n} -> layers[g]],
                 r \in rest}

JunctionMasterLists(n) ==
    {[i \in 1..n |-> JunctionMaster(CheckMasterIds[i], "Regular", 500)]}

JunctionFonts ==
    UNION {{[masters |-> ms, glyphs |-> gs] :
                ms \in JunctionMasterLists(n),
                gs \in GlyphsWithLayers(n, JunctionLayers(n), DOMAIN JunctionLayers(n))} :
           n \in 1..Len(CheckMasterIds)}

JunctionBodies ==
    {NoBody} \cup
    {[masterId |-> mid] : mid \in {"", "m2", "zz"}} \cup
    {[glyphNames |-> gl, masterId |-> mid] :
        gl \in {<<Plain("m"), Plain("n")>>,
                <<Plain("h"), Plain("zz"), Plain("n"), Plain("o")>>},
        mid \in {None, "m1", "zz"}}

InitJunctions ==
    /\ StemIdle
    /\ SysIdle
    /\ DomIdle
    /\ font \in JunctionFonts
    /\ glyphColor = [g \in DOMAIN font.glyphs |-> NoValue]
    /\ request \in {Call("junctions/check", b) : b \in JunctionBodies}
    /\ response = Pending

HandleCheckJunctions ==
    /\ request.route = "junctions/check"
    /\ response = Pending
    /\ LET out == handle_check_junctions(font, glyphColor, request.body)
       IN  /\ response' = [status |-> out.status, result |-> out.result]
           /\ glyphColor' = out.colors
    /\ UNCHANGED <<font, request, stemVars, domVars, sysVars>>

JunctionsNext == HandleCheckJunctions

SpecJunctions == InitJunctions /\ [][JunctionsNext]_vars

-----------------------------------------------------------------------------
(* Properties of the junction check                                        *)

\* the thinning values reported for a master, by glyph
ReportedThinning(result) ==
    [g \in {x \in DOMAIN result.junctions : "thinning" \in DOMAIN result.junctions[x]} |->
        result.junctions[g].thinning]

\* the glyph is a member of a consistency group two of whose members'
\* reported thinning ratios differ by more than the tolerance on a master
InSpreadGroup(g) ==
    \E mid \in DOMAIN ResultsByMaster :
        \E k \in 1..Len(_JUNCTION_GROUPS) :
            LET members == {Plain(s) : s \in Range(_JUNCTION_GROUPS[k].members)}
                thinning == ReportedThinning(ResultsByMaster[mid])
            IN  /\ g \in members
                /\ g \in DOMAIN thinning
                /\ \E x, y \in members \cap DOMAIN thinning :
                      thinning[x] - thinning[y] > _JUNCTION_GROUPS[k].tolerance

-----------------------------------------------------------------------------
(* _measure_perpendicular and the zone _auto_measure_glyph gives it        *)
(*                                                                         *)
(* Vertical metrics, node positions and distances are counted in halves    *)
(* of a unit, so that int() and round() have something to cut.  A node     *)
(* carries what the geometry provider answers for it: the tangent angle,   *)
(* or None when the tangent call raises, and the distances from the node   *)
(* to the intersections of its perpendicular ray, in the order returned.   *)

\* a master with its vertical metrics
MetricsMaster(descender, xHeight, capHeight, ascender) ==
    [descender |-> descender, xHeight |-> xHeight, capHeight |-> capHeight,
     ascender |-> ascender]

Node(type, y, tangent, raw) == [type |-> type, y |-> y, tangent |-> tangent, raw |-> raw]

\* a layer for the perpendicular measurement: whether layer.bounds is non-null
\* with a width, whether the provider calls on the clean copy raise, and the
\* paths of the clean copy
NodeLayer(bounds, provider, paths) == [bounds |-> bounds, provider |-> provider, paths |-> paths]

\* int(v) of a value given in halves of a unit: cut towards zero
PyInt(halves) == IF halves >= 0 THEN halves \div 2 ELSE -((-halves) \div 2)

MAX_THICKNESS == 300

\* the zone of a lowercase glyph starting at the baseline
BaselineZone(cls, master) ==
    IF cls = "lowercase" THEN <<0, PyInt(master.xHeight)>>
    ELSE <<PyInt(master.descender), PyInt(master.capHeight)>>

\* (y_min, y_max) as _auto_measure_glyph chooses them and _measure_perpendicular
\* completes them
MeasureZone(cls, master) ==
    IF cls = "lowercase" THEN <<PyInt(master.descender), PyInt(master.xHeight)>>
    ELSE <<PyInt(master.descender), PyInt(master.capHeight)>>

\* the distances kept: d > 0.5 and d < 900
KeptDistances(raw) ==
    LET Kept(d) == d > 1 /\ d < 1800
    IN  SortAscending(SelectSeq(raw, Kept))

\* the thickness of a node with kept distances: the second distance when the
\* first is under 10 units
ThicknessOf(dists) ==
    IF Len(dists) >= 2 /\ dists[1] < 20 THEN PyRound(dists[2]) ELSE PyRound(dists[1])

IsVertical(angle) ==
    LET norm == angle % 360
    IN  (60 <= norm /\ norm <= 120) \/ (240 <= norm /\ norm <= 300)

IsHorizontal(angle) ==
    LET norm == angle % 360
    IN  norm <= 30 \/ (150 <= norm /\ norm <= 210) \/ norm >= 330

\* whether the node with index i of a path is measured
Measured(node, zone) ==
    /\ node.type # "offcurve"
    /\ ~(node.y < 2 * zone[1] \/ node.y > 2 * zone[2])
    /\ node.tangent # NoValue
    /\ Len(node.raw) >= 2
    /\ KeptDistances(node.raw) # <<>>
    /\ ThicknessOf(KeptDistances(node.raw)) <= MAX_THICKNESS

Measurement(i, node) ==
    [node |-> i, y |-> PyRound(node.y), tangent |-> node.tangent[1],
     thickness |-> ThicknessOf(KeptDistances(node.raw))]

\* the measurements of the nodes i.. of one path
RECURSIVE PathMeasurements(_, _, _)
PathMeasurements(path, i, zone) ==
    IF i > Len(path) THEN <<>>
    ELSE (IF Measured(path[i], zone) THEN <<Measurement(i - 1, path[i])>> ELSE <<>>)
         \o PathMeasurements(path, i + 1, zone)

RECURSIVE AllMeasurements(_, _)
AllMeasurements(paths, zone) ==
    IF paths = <<>> THEN <<>>
    ELSE PathMeasurements(Head(paths), 1, zone) \o AllMeasurements(Tail(paths), zone)

ThicknessesOf(measurements) ==
    [i \in 1..Len(measurements) |-> measurements[i].thickness]

VerticalOnes(measurements) ==
    LET Vertical(ms) == IsVertical(ms.tangent)
    IN  SelectSeq(measurements, Vertical)

HorizontalOnes(measurements) ==
    LET Horizontal(ms) == ~IsVertical(ms.tangent) /\ IsHorizontal(ms.tangent)
    IN  SelectSeq(measurements, Horizontal)

\* (v_stems, h_stems, all_measurements)
_measure_perpendicular(layer, zone) ==
    [v_stems |-> ThicknessesOf(VerticalOnes(AllMeasurements(layer.paths, zone))),
     h_stems |-> ThicknessesOf(HorizontalOnes(AllMeasurements(layer.paths, zone))),
     measurements |-> AllMeasurements(layer.paths, zone)]

\* an exception leaving a function
Raised(type) == [status |-> 2, raised |-> type]

StemSummary(stems, strat, ref) ==
    [dominant |-> _find_dominant_stem(stems, DEFAULT_TOLERANCE, strat, ref),
     min |-> IF stems = <<>> THEN NoValue ELSE Some(SetMin(Range(stems))),
     max |-> IF stems = <<>> THEN NoValue ELSE Some(SetMax(Range(stems)))]

\* the dict _auto_measure_glyph returns for what _measure_perpendicular found
AutoMeasured(found, strat, ref) ==
    [verticalStems |-> StemSummary(found.v_stems, strat, ref),
     horizontalStems |-> StemSummary(found.h_stems, strat, ref),
     measurements |-> found.measurements]

\* _auto_measure_glyph on a layer with nodes: what it returns, with the
\* measurements it was computed from, or the exception of the provider
AutoMeasureNodes(cls, master, layer, strat, ref) ==
    IF ~layer.bounds
    THEN Return([verticalStems |-> [dominant |-> NoValue, min |-> NoValue, max |-> NoValue],
                 horizontalStems |-> [dominant |-> NoValue, min |-> NoValue, max |-> NoValue],
                 measurements |-> <<>>])
    ELSE IF layer.provider = "raises" THEN Raised("Exception")
    ELSE Return(AutoMeasured(_measure_perpendicular(layer, MeasureZone(cls, master)),
                             strat, ref))

-----------------------------------------------------------------------------
(* The perpendicular measurement applied to bounded layers                 *)

MeasureMaxNodes == 2

\* descender -2 or -2.5, x-height 5, cap height 7, ascender 8
MetricsMasters == {MetricsMaster(d, 10, 14, 16) : d \in {-4, -5}}

\* a node of a vertical stem 80 or 90 units thick
StemNode(y, thickness) == Node("line", y, Some(90), <<0, 2 * thickness>>)

\* nodes of vertical stems below, inside and above the zones, and the nodes
\* that are not measured
NodeKinds ==
    {StemNode(y, t) : y \in {-6, -5, -2, 4, 10, 11, 15, 18}, t \in {80, 90}}
    \cup {Node("offcurve", 4, Some(90), <<0, 160>>),
          Node("line", 4, NoValue, <<0, 160>>),
          Node("curve", 4, Some(0), <<0, 10, 181>>),
          Node("line", 4, Some(-90), <<0, 700>>),
          Node("line", 4, Some(45), <<2000, 159>>),
          Node("line", 4, Some(270), <<0>>)}

MeasuredPaths ==
    {<<p>> : p \in SeqsUpTo(NodeKinds, MeasureMaxNodes)}
    \cup {<<p, q>> : p, q \in SeqsUpTo({StemNode(-2, 80), StemNode(4, 90)}, 1)}

MeasureCalls ==
    {[glyph |-> g, master |-> ms, layer |-> NodeLayer(b, pr, paths)] :
        g \in {<<"n">>, <<"H">>, <<"period">>}, ms \in MetricsMasters,
        b \in BOOLEAN, pr \in {"ok", "raises"}, paths \in MeasuredPaths}

InitMeasure ==
    /\ StemIdle
    /\ SysIdle
    /\ DomIdle
    /\ font = NoFont
    /\ glyphColor = <<>>
    /\ request \in MeasureCalls
    /\ response = Pending

AutoMeasureGlyph ==
    /\ response = Pending
    /\ "layer" \in DOMAIN request
    /\ response' = AutoMeasureNodes(_classify_glyph(GlyphData(request.glyph)),
                                    request.master, request.layer, "frequency", NoValue)
    /\ UNCHANGED <<font, glyphColor, request, stemVars, domVars, sysVars>>

MeasureNext == AutoMeasureGlyph

SpecMeasure == InitMeasure /\ [][MeasureNext]_vars

-----------------------------------------------------------------------------
(* Properties of the perpendicular measurement                             *)

AutoMeasureReturned == response.status = 1 /\ "measurements" \in DOMAIN response.result

\* the on-curve nodes of the measured layer with their positions in halves
MeasuredNodes ==
    UNION {{request.layer.paths[k][i] : i \in 1..Len(request.layer.paths[k])} :
              k \in 1..Len(request.layer.paths)}

\* C14, as stated: every stem sample, and so the dominant value, comes from an
\* on-curve vertex whose y lies in [0, x-height] for a lowercase glyph and in
\* [descender, ascender] for any other glyph.  Violated: a lowercase glyph is
\* sampled down to the descender.
C14_SamplesInZone ==
    AutoMeasureReturned =>
        \A i \in 1..Len(response.result.measurements) :
            \E node \in MeasuredNodes :
                /\ node.type # "offcurve"
                /\ PyRound(node.y) = response.result.measurements[i].y
                /\ node.raw # <<>>
                /\ IF _classify_glyph(GlyphData(request.glyph)) = "lowercase"
                   THEN 0 <= node.y /\ node.y <= request.master.xHeight
                   ELSE request.master.descender <= node.y
                        /\ node.y <= request.master.ascender

\* what the measurement does: the samples of a lowercase glyph lie between
\* int(descender) and int(x-height), those of any other glyph between
\* int(descender) and int(cap height)
SamplesInMeasuredZone ==
    AutoMeasureReturned =>
        \A i \in 1..Len(response.result.measurements) :
            \E node \in MeasuredNodes :
                /\ node.type # "offcurve"
                /\ PyRound(node.y) = response.result.measurements[i].y
                /\ 2 * PyInt(request.master.descender) <= node.y
                /\ IF _classify_glyph(GlyphData(request.glyph)) = "lowercase"
                   THEN node.y <= 2 * PyInt(request.master.xHeight)
                   ELSE node.y <= 2 * PyInt(request.master.capHeight)

-----------------------------------------------------------------------------
(* A stem comparison request whose measurement raises                      *)
(*                                                                         *)
(* _analyze_one_master has no exception handler, bridge.execute_on_main    *)
(* raises the exception of the main-thread call again in the request       *)
(* thread, and _handle_request answers an exception of the handler with    *)
(* status 500.                                                             *)

\* glyph.layers[mid] of a glyph that has no layer for the master: None
AbsentLayer == Layer(FALSE, FALSE, <<>>) @@ [fails |-> "absent"]

\* a layer with outlines on which a provider call (copyDecomposedLayer,
\* removeOverlap, intersectionsBetweenPoints) raises
ProviderFails == Layer(TRUE, TRUE, <<80>>) @@ [fails |-> "provider"]

IsAbsent(layer) == "fails" \in DOMAIN layer /\ layer.fails = "absent"

\* the exception of _auto_measure_glyph on a layer, None when it returns
AutoMeasureRaise(layer) ==
    IF layer.bounds /\ "fails" \in DOMAIN layer /\ layer.fails = "provider"
    THEN "Exception" ELSE None

\* the exception of _measure_ref: `lyr.paths` on None, or the measurement
MeasureRefRaise(fnt, ref_name, mid) ==
    IF ~HasGlyph(fnt, ref_name) THEN None
    ELSE IF IsAbsent(fnt.glyphs[ref_name].layers[mid]) THEN "AttributeError"
    ELSE IF ~fnt.glyphs[ref_name].layers[mid].outlines THEN None
    ELSE AutoMeasureRaise(fnt.glyphs[ref_name].layers[mid])

\* the exception of one turn of the loop over glyph_names
EvaluateRaise(fnt, gname, mid, lc_ref, uc_ref) ==
    IF ~HasGlyph(fnt, gname) THEN None
    ELSE IF IsAbsent(fnt.glyphs[gname].layers[mid]) THEN "AttributeError"
    ELSE IF ~fnt.glyphs[gname].layers[mid].outlines THEN None
    ELSE IF (IF _classify_glyph(fnt.glyphs[gname]) \in {"uppercase", "figure"}
             THEN uc_ref ELSE lc_ref) = NoValue
    THEN None
    ELSE AutoMeasureRaise(fnt.glyphs[gname].layers[mid])

RECURSIVE LoopRaise(_, _, _, _, _)
LoopRaise(fnt, glyph_names, mid, lc_ref, uc_ref) ==
    IF glyph_names = <<>> THEN None
    ELSE IF EvaluateRaise(fnt, Head(glyph_names), mid, lc_ref, uc_ref) # None
    THEN EvaluateRaise(fnt, Head(glyph_names), mid, lc_ref, uc_ref)
    ELSE LoopRaise(fnt, Tail(glyph_names), mid, lc_ref, uc_ref)

\* the exception that leaves _analyze_one_master, None when it returns
AnalyzeRaise(fnt, glyph_names, mid) ==
    IF MeasureRefRaise(fnt, <<"n">>, mid) # None THEN MeasureRefRaise(fnt, <<"n">>, mid)
    ELSE IF MeasureRefRaise(fnt, <<"H">>, mid) # None THEN MeasureRefRaise(fnt, <<"H">>, mid)
    ELSE LoopRaise(fnt, glyph_names, mid,
                   _measure_ref(fnt, <<"n">>, mid), _measure_ref(fnt, <<"H">>, mid))

\* the exception that leaves the loop over masters_to_check
RECURSIVE CompareRaise(_, _, _)
CompareRaise(fnt, glyph_names, to_check) ==
    IF to_check = <<>> THEN None
    ELSE IF AnalyzeRaise(fnt, glyph_names, Head(to_check).id) # None
    THEN AnalyzeRaise(fnt, glyph_names, Head(to_check).id)
    ELSE CompareRaise(fnt, glyph_names, Tail(to_check))

\* what _handle_request sends for an exception of the handler
HandlerError(colors, type) ==
    [status |-> 500, result |-> [error |-> "exception", type |-> type], colors |-> colors]

\* what _handle_request sends for POST /api/font/stems/compare, and the glyph
\* colours the handler leaves
compare_stems_request(fnt, colors, body) ==
    IF body = NoBody \/ "glyphNames" \notin DOMAIN body
    THEN handle_compare_stems(fnt, colors, body)
    ELSE IF CompareRaise(fnt, body.glyphNames, MastersToCheck(fnt, body.masterId)) # None
    THEN HandlerError(colors,
            CompareRaise(fnt, body.glyphNames, MastersToCheck(fnt, body.masterId)))
    ELSE handle_compare_stems(fnt, colors, body)

-----------------------------------------------------------------------------
(* Stem comparison requests on fonts with failing layers                   *)

FailureLayers(n) ==
    IF n = 1
    THEN (<<"n">> :> {Stems80, NoOutlines, AbsentLayer, ProviderFails})
         @@ (<<"H">> :> {Stems80, ProviderFails})
         @@ (<<"o">> :> {Stems80, Stems90, NoOutlines, AbsentLayer, ProviderFails})
    ELSE (<<"n">> :> {Stems80, ProviderFails})
         @@ (<<"o">> :> {Stems80, Stems90, AbsentLayer, ProviderFails})

FailureMasterLists(n) ==
    {[i \in 1..n |-> [id |-> CheckMasterIds[i], name |-> names[i]]] :
        names \in [1..n -> MasterNames]}

FailureFonts ==
    UNION {{[masters |-> ms, glyphs |-> gs] :
                ms \in FailureMasterLists(n),
                gs \in GlyphsWithLayers(n, FailureLayers(n), DOMAIN FailureLayers(n))} :
           n \in 1..Len(CheckMasterIds)}

StemBodies ==
    {NoBody} \cup
    {[glyphNames |-> gl, masterId |-> mid] :
        gl \in {<< <<"o">> >>, << <<"o">>, <<"n">> >>, << <<"zz">>, <<"o">>, <<"H">> >>},
        mid \in {None, "m1", "zz"}}

InitFailure ==
    /\ StemIdle
    /\ SysIdle
    /\ DomIdle
    /\ font \in FailureFonts
    /\ glyphColor = [g \in DOMAIN font.glyphs |-> NoValue]
    /\ request \in {Call("stems/compare", b) : b \in StemBodies}
    /\ response = Pending

HandleStemsRequest ==
    /\ request.route = "stems/compare"
    /\ response = Pending
    /\ LET out == compare_stems_request(font, glyphColor, request.body)
       IN  /\ response' = [status |-> out.status, result |-> out.result]
           /\ glyphColor' = out.colors
    /\ UNCHANGED <<font, request, stemVars, domVars, sysVars>>

FailureNext == HandleStemsRequest

SpecFailure == InitFailure /\ [][FailureNext]_vars

-----------------------------------------------------------------------------
(* Properties of a stem comparison whose measurement fails                 *)

\* the masters a stem or density comparison analyses
AnalysedMasters == MastersToCheck(font, BodyMasterId(request.body))

\* the request names glyphs and its master id, if any, is one of the font
Analysable ==
    /\ request.body # NoBody
    /\ "glyphNames" \in DOMAIN request.body
    /\ AnalysedMasters # <<>>

\* a requested glyph whose layer on an analysed master is absent, or on whose
\* layer a provider call raises
FailingGlyphs ==
    {g \in Range(request.body.glyphNames) :
        /\ HasGlyph(font, g)
        /\ \E i \in 1..Len(AnalysedMasters) :
              "fails" \in DOMAIN font.glyphs[g].layers[AnalysedMasters[i].id]}

\* C13, as stated: when the measurement of a requested glyph fails, the stem
\* comparison still answers with its report, in which every requested glyph
\* has an entry under every reported master and the failing glyph's entry is
\* an error or unreliable entry.  Violated: the request fails with status 500.
C13_FailureStaysInBand ==
    (/\ request.route = "stems/compare"
     /\ response # Pending
     /\ Analysable
     /\ FailingGlyphs # {})
    => /\ response.status = 200
       /\ "masters" \in DOMAIN response.result
       /\ \A mn \in DOMAIN response.result.masters :
             /\ \A g \in Range(request.body.glyphNames) :
                   \E e \in Range(response.result.masters[mn].glyphs) : e.glyph = g
             /\ \A e \in Range(response.result.masters[mn].glyphs) :
                   (/\ e.glyph \in FailingGlyphs
                    /\ "fails" \in DOMAIN font.glyphs[e.glyph].layers[
                                              response.result.masters[mn].masterId])
                   => ("error" \in DOMAIN e \/ e.verdict = "unreliable")

-----------------------------------------------------------------------------
(* _is_pointed_apex and handle_check_overshoots                            *)
(*                                                                         *)
(* Heights, extremes and widths are counted in halves of a unit,           *)
(* percentages in hundredths of a percent.  A layer carries the x          *)
(* positions of its on-curve nodes near the top and near the bottom        *)
(* extreme.  The statistics and the legends of the response are left out.  *)

_OVERSHOOT_GLYPHS ==
    [O |-> "round", C |-> "round", G |-> "round", Q |-> "round", S |-> "round",
     U |-> "round_bottom", J |-> "round_bottom",
     A |-> "pointed", V |-> "pointed", W |-> "pointed", M |-> "pointed", N |-> "pointed",
     o |-> "round", c |-> "round", e |-> "round", s |-> "round",
     b |-> "round_bottom", d |-> "round_bottom", p |-> "round_bottom",
     q |-> "round_bottom", g |-> "round_bottom", a |-> "round_bottom",
     u |-> "round_bottom",
     v |-> "pointed", w |-> "pointed", y |-> "pointed",
     zero |-> "round", three |-> "round", six |-> "round", eight |-> "round",
     nine |-> "round", two |-> "round_bottom", five |-> "round_bottom"]

\* the keys of _OVERSHOOT_GLYPHS in the order of the dict
OvershootNames ==
    << "O", "C", "G", "Q", "S", "U", "J", "A", "V", "W", "M", "N", "o", "c", "e", "s",
       "b", "d", "p", "q", "g", "a", "u", "v", "w", "y", "zero", "three", "six",
       "eight", "nine", "two", "five" >>

\* a layer as the overshoot check reads it
OvershootLayer(outlines, bounds, y_min, y_max, width, top_xs, bottom_xs) ==
    [outlines |-> outlines, bounds |-> bounds, y_min |-> y_min, y_max |-> y_max,
     width |-> width, top_xs |-> top_xs, bottom_xs |-> bottom_xs]

\* (is_pointed, x_span, node_count) for the near nodes at one extreme
PointedApex(width, near_nodes) ==
    IF near_nodes = <<>> THEN [pointed |-> FALSE, span |-> 0, count |-> 0]
    ELSE [pointed |-> 20 * (SetMax(Range(near_nodes)) - SetMin(Range(near_nodes))) < width,
          span |-> SetMax(Range(near_nodes)) - SetMin(Range(near_nodes)),
          count |-> Len(near_nodes)]

_is_pointed_apex(layer, at_top) ==
    IF ~layer.bounds \/ layer.width <= 0 THEN [pointed |-> FALSE, span |-> 0, count |-> 0]
    ELSE PointedApex(layer.width, IF at_top THEN layer.top_xs ELSE layer.bottom_xs)

\* `overshoot < 0.5`
NoOvershoot(overshoot) == overshoot < 1

\* `pct > max_pct` for pct = overshoot / zone_height * 100, 0 for a zone of 0
Excessive(overshoot, zone_height, max_pct) ==
    zone_height > 0 /\ 100 * overshoot > max_pct * zone_height

\* the issues of a round or round_bottom form
RoundIssues(otype, top, bottom, zone_height, max_pct) ==
    (IF NoOvershoot(bottom) THEN <<"no bottom overshoot">>
     ELSE IF Excessive(bottom, zone_height, max_pct)
     THEN <<"excessive bottom overshoot">> ELSE <<>>)
    \o (IF otype # "round" THEN <<>>
        ELSE IF NoOvershoot(top) THEN <<"no top overshoot">>
        ELSE IF Excessive(top, zone_height, max_pct)
        THEN <<"excessive top overshoot">> ELSE <<>>)

\* the issues of a pointed form
PointedIssues(base, layer, top, bottom) ==
    (IF base \in {"A", "M", "N"} /\ _is_pointed_apex(layer, TRUE).pointed /\ NoOvershoot(top)
     THEN <<"pointed apex has no top overshoot">> ELSE <<>>)
    \o (IF /\ base \in {"V", "W", "v", "w", "y"}
           /\ _is_pointed_apex(layer, FALSE).pointed
           /\ NoOvershoot(bottom)
        THEN <<"pointed vertex has no bottom overshoot">> ELSE <<>>)

OvershootIssues(base, otype, layer, top, bottom, zone_height, max_pct) ==
    IF otype \in {"round", "round_bottom"}
    THEN RoundIssues(otype, top, bottom, zone_height, max_pct)
    ELSE IF otype = "pointed" THEN PointedIssues(base, layer, top, bottom)
    ELSE <<>>

\* the hundredths of a percent of round(overshoot / zone_height * 100, 2)
OvershootPct(overshoot, zone_height) ==
    IF zone_height > 0 THEN RoundHalfEven(10000 * overshoot, zone_height) ELSE 0

\* the apex fields of the entry of a pointed form
ApexFields(base, otype, layer) ==
    (IF otype = "pointed" /\ base \in {"A", "M", "N"}
     THEN [apexPointed |-> _is_pointed_apex(layer, TRUE).pointed,
           apexSpan |-> _is_pointed_apex(layer, TRUE).span]
     ELSE <<>>)
    @@ (IF otype = "pointed" /\ base \in {"V", "W", "v", "w", "y"}
        THEN [vertexPointed |-> _is_pointed_apex(layer, FALSE).pointed,
              vertexSpan |-> _is_pointed_apex(layer, FALSE).span]
        ELSE <<>>)

\* the verdict fields: inconsistent with issues, pass without
OvershootVerdict(issues) ==
    IF issues # <<>> THEN [verdict |-> "inconsistent", color |-> 0, note |-> issues]
    ELSE [verdict |-> "pass", color |-> 4]

OvershootEntry(gname, otype, layer, zone_top, max_pct) ==
    [glyph |-> gname,
     type |-> otype,
     zoneTop |-> zone_top,
     zoneBottom |-> 0,
     yMax |-> layer.y_max,
     yMin |-> layer.y_min,
     topOvershoot |-> layer.y_max - zone_top,
     bottomOvershoot |-> 0 - layer.y_min,
     topPct |-> OvershootPct(layer.y_max - zone_top, zone_top),
     bottomPct |-> OvershootPct(0 - layer.y_min, zone_top)]
    @@ ApexFields(BaseName(gname), otype, layer)
    @@ OvershootVerdict(OvershootIssues(BaseName(gname), otype, layer,
           layer.y_max - zone_top, 0 - layer.y_min, zone_top, max_pct))

\* _OVERSHOOT_GLYPHS.get(base, "round")
OvershootType(gname) ==
    IF BaseName(gname) \in DOMAIN _OVERSHOOT_GLYPHS THEN _OVERSHOOT_GLYPHS[BaseName(gname)]
    ELSE "round"

\* zone_top of a glyph class
ZoneTop(gclass, master, fig_zone_top) ==
    IF gclass = "figure" THEN fig_zone_top
    ELSE IF gclass = "lowercase" THEN master.xHeight
    ELSE master.capHeight

\* the tops of the straight figures four, seven and one that have outlines
\* and bounds with a height
FigCandidates(fnt, mid) ==
    {fnt.glyphs[g].layers[mid].y_max :
        g \in {x \in {Plain("four"), Plain("seven"), Plain("one")} :
                 /\ HasGlyph(fnt, x)
                 /\ fnt.glyphs[x].layers[mid].outlines
                 /\ fnt.glyphs[x].layers[mid].bounds
                 /\ fnt.glyphs[x].layers[mid].y_max - fnt.glyphs[x].layers[mid].y_min > 0}}

FigZoneTop(fnt, master) ==
    IF FigCandidates(fnt, master.id) = {} THEN master.capHeight
    ELSE SetMin(FigCandidates(fnt, master.id))

\* the evaluations of one master: a glyph the font lacks, or without
\* outlines or bounds, has no entry
RECURSIVE OvershootEntries(_, _, _, _)
OvershootEntries(fnt, names, master, fig_zone_top) ==
    IF names = <<>> THEN <<>>
    ELSE IF ~HasGlyph(fnt, Head(names))
    THEN OvershootEntries(fnt, Tail(names), master, fig_zone_top)
    ELSE IF \/ ~fnt.glyphs[Head(names)].layers[master.id].outlines
            \/ ~fnt.glyphs[Head(names)].layers[master.id].bounds
    THEN OvershootEntries(fnt, Tail(names), master, fig_zone_top)
    ELSE <<OvershootEntry(Head(names), OvershootType(Head(names)),
               fnt.glyphs[Head(names)].layers[master.id],
               ZoneTop(_classify_glyph(fnt.glyphs[Head(names)]), master, fig_zone_top),
               IF _classify_glyph(fnt.glyphs[Head(names)]) = "lowercase" THEN 4 ELSE 3)>>
         \o OvershootEntries(fnt, Tail(names), master, fig_zone_top)

_overshoots_master(fnt, names, master) ==
    [masterId |-> master.id,
     zoneInfo |-> [capHeight |-> master.capHeight, xHeight |-> master.xHeight,
                   figureTop |-> FigZoneTop(fnt, master)],
     glyphs |-> OvershootEntries(fnt, names, master, FigZoneTop(fnt, master))]

\* names_to_check: the requested names, or the known names the font has
OvershootCheckNames(fnt, body) ==
    LET Present(g) == HasGlyph(fnt, g)
    IN  IF body = NoBody \/ "glyphNames" \notin DOMAIN body \/ body.glyphNames = <<>>
        THEN SelectSeq([i \in 1..Len(OvershootNames) |-> Plain(OvershootNames[i])], Present)
        ELSE body.glyphNames

\* the loop `all_master_results[mname] = {...}`: a later master replaces the
\* entry of an earlier master of the same name
RECURSIVE OvershootLoop(_, _, _, _)
OvershootLoop(fnt, names, to_check, results) ==
    IF to_check = <<>> THEN results
    ELSE OvershootLoop(fnt, names, Tail(to_check),
            (Head(to_check).name :> _overshoots_master(fnt, names, Head(to_check)))
                @@ results)

\* worst_color: the smallest colour of the entries of each glyph
WorstOvershootColors(results) ==
    [g \in {e.glyph : e \in AllEntries(results)} |->
        SetMin({e.color : e \in {x \in AllEntries(results) : x.glyph = g}})]

OvershootReport(colors, masters_to_analyze, all_master_results) ==
    [status |-> 200,
     result |-> [masters |-> all_master_results,
                 mastersAnalyzed |-> Len(masters_to_analyze)],
     colors |-> MarkWorst(colors, WorstOvershootColors(all_master_results))]

\* the status and result of the handler, and the glyph colours it leaves
handle_check_overshoots(fnt, colors, body) ==
    IF UnknownMaster(fnt, BodyMasterId(body)) THEN MasterNotFound(colors)
    ELSE OvershootReport(colors, MastersToCheck(fnt, BodyMasterId(body)),
            OvershootLoop(fnt, OvershootCheckNames(fnt, body),
                MastersToCheck(fnt, BodyMasterId(body)), <<>>))

-----------------------------------------------------------------------------
(* handle_check_diagonals                                                  *)
(*                                                                         *)
(* Ratios and spreads are counted in tenths of a percent.                  *)

\* tolerances in tenths of a percent
_DIAG_GROUPS ==
    << [group |-> "lc_vwy", members |-> <<"v", "w", "y">>, tolerance |-> 180,
        note |-> "LC open diagonals"],
       [group |-> "uc_VAW", members |-> <<"V", "A", "W">>, tolerance |-> 100,
        note |-> "UC primary diagonals"],
       [group |-> "uc_XYZ", members |-> <<"X", "Y", "Z">>, tolerance |-> 120,
        note |-> "UC secondary diagonals"],
       [group |-> "uc_MN", members |-> <<"M", "N">>, tolerance |-> 100,
        note |-> "UC diagonal verticals"] >>

\* [lo, hi] in percent of the reference stem
_DIAG_RATIO_RANGE ==
    [v |-> <<85, 101>>, w |-> <<82, 101>>, y |-> <<83, 101>>, k |-> <<50, 100>>,
     V |-> <<87, 110>>, W |-> <<87, 108>>, Y |-> <<85, 108>>, A |-> <<90, 112>>,
     K |-> <<87, 115>>, M |-> <<87, 111>>, N |-> <<84, 113>>]

_DIAG_UNRELIABLE == {"x", "X", "z", "Z"}

_DIAG_MIN_SPREAD == 4

_DIAG_MIN_REF == 30

_DIAG_LC == <<"v", "w", "x", "y", "z", "k">>

_DIAG_UC == <<"V", "W", "X", "Y", "Z", "A", "K", "M", "N">>

\* a layer with the thicknesses _measure_perpendicular collects on it in
\* both directions
DiagLayer(bounds, v_stems, h_stems) == Layer(TRUE, bounds, v_stems) @@ [h_stems |-> h_stems]

\* auto["horizontalStems"]["dominant"] of _auto_measure_glyph
HorizontalDominant(layer) ==
    IF ~layer.bounds THEN NoValue
    ELSE IF layer.h_stems = <<>> THEN NoValue
    ELSE _find_dominant_stem(layer.h_stems, DEFAULT_TOLERANCE, "frequency", NoValue)

\* the truth of an optional number: None and 0 are false
Truthy(opt) == opt # NoValue /\ opt[1] # 0

\* `v_dom or h_dom`
FirstTruthy(v_dom, h_dom) == IF Truthy(v_dom) THEN v_dom ELSE h_dom

\* the reference stem of a master, None without the glyph
DiagReference(fnt, ref_name, mid) ==
    IF HasGlyph(fnt, Plain(ref_name))
    THEN _auto_measure_glyph(fnt.glyphs[Plain(ref_name)].layers[mid], "frequency", NoValue)
    ELSE NoValue

InDiagRange(gname) == Len(gname) = 1 /\ gname[1] \in DOMAIN _DIAG_RATIO_RANGE

DiagUnreliable(gname) == Len(gname) = 1 /\ gname[1] \in _DIAG_UNRELIABLE

\* the verdict fields of a diagonal with a reference
DiagVerdict(gname, ratio, ref) ==
    IF DiagUnreliable(gname)
    THEN [verdict |-> "unreliable", note |-> "crossing strokes - measurement unreliable"]
    ELSE IF ref < _DIAG_MIN_REF
    THEN [verdict |-> "pass", note |-> "ref too thin for ratio check"]
    ELSE IF InDiagRange(gname)
    THEN IF \/ ratio < 10 * _DIAG_RATIO_RANGE[gname[1]][1]
            \/ ratio > 10 * _DIAG_RATIO_RANGE[gname[1]][2]
         THEN [verdict |-> "outside_range", range |-> _DIAG_RATIO_RANGE[gname[1]]]
         ELSE [verdict |-> "pass"]
    ELSE [verdict |-> "no_pattern"]

\* diag_results[gname] for the measured stem and the reference of the glyph
DiagEntry(gname, stem, ref, ref_name) ==
    IF ~Truthy(stem) THEN [stem |-> NoValue, error |-> "no measurement"]
    ELSE IF ~Truthy(ref) THEN [stem |-> stem, ratio |-> NoValue, ref |-> ref_name]
    ELSE [stem |-> stem, ref |-> ref_name, refStem |-> ref[1],
          ratio |-> RoundHalfEven(1000 * stem[1], ref[1])]
         @@ DiagVerdict(gname, RoundHalfEven(1000 * stem[1], ref[1]), ref[1])

DiagResults(fnt, check_names, mid, n_ref, H_ref) ==
    [g \in Range(check_names) |->
        DiagEntry(g,
            FirstTruthy(_auto_measure_glyph(fnt.glyphs[g].layers[mid], "frequency", NoValue),
                        HorizontalDominant(fnt.glyphs[g].layers[mid])),
            IF _classify_glyph(fnt.glyphs[g]) = "uppercase" THEN H_ref ELSE n_ref,
            IF _classify_glyph(fnt.glyphs[g]) = "uppercase" THEN "H" ELSE "n")]

\* the members of a group with a stem that are not unreliable
DiagMembers(ginfo, diag_results) ==
    LET Usable(s) ==
            /\ Plain(s) \in DOMAIN diag_results
            /\ Truthy(diag_results[Plain(s)].stem)
            /\ s \notin _DIAG_UNRELIABLE
    IN  SelectSeq(ginfo.members, Usable)

\* the spread of the stems in tenths of a percent of their mean
SpreadPct(stems) ==
    IF SumOver(DOMAIN stems, stems) = 0 THEN 0
    ELSE RoundHalfEven(
            1000 * (SetMax(Range(stems)) - SetMin(Range(stems))) * Len(stems),
            SumOver(DOMAIN stems, stems))

DiagGroupVerdict(stems, tol) ==
    IF SetMax(Range(stems)) - SetMin(Range(stems)) <= _DIAG_MIN_SPREAD THEN "pass"
    ELSE IF SpreadPct(stems) <= tol THEN "pass"
    ELSE "inconsistent"

DiagGroupResult(ginfo, members, diag_results) ==
    [group |-> ginfo.group,
     note |-> ginfo.note,
     members |-> [s \in Range(members) |-> diag_results[Plain(s)].stem[1]],
     spreadPct |-> SpreadPct([i \in 1..Len(members) |-> diag_results[Plain(members[i])].stem[1]]),
     tolerance |-> ginfo.tolerance,
     verdict |-> DiagGroupVerdict(
                    [i \in 1..Len(members) |-> diag_results[Plain(members[i])].stem[1]],
                    ginfo.tolerance)]

RECURSIVE DiagGroupsFrom(_, _)
DiagGroupsFrom(infos, diag_results) ==
    IF infos = <<>> THEN <<>>
    ELSE IF Len(DiagMembers(Head(infos), diag_results)) < 2
    THEN DiagGroupsFrom(Tail(infos), diag_results)
    ELSE <<DiagGroupResult(Head(infos), DiagMembers(Head(infos), diag_results),
                           diag_results)>>
         \o DiagGroupsFrom(Tail(infos), diag_results)

DiagReport(master, n_ref, H_ref, diag_results, group_results) ==
    [masterName |-> master.name,
     references |-> [n |-> n_ref, H |-> H_ref],
     diagonals |-> diag_results,
     groups |-> group_results,
     summary |-> [glyphsChecked |-> Cardinality(DOMAIN diag_results),
                  ratioIssues |->
                      Cardinality({g \in DOMAIN diag_results :
                          /\ "verdict" \in DOMAIN diag_results[g]
                          /\ diag_results[g].verdict = "outside_range"}),
                  groupIssues |-> Len(InconsistentGroups(group_results))]]

DiagonalsMeasured(master, n_ref, H_ref, diag_results) ==
    DiagReport(master, n_ref, H_ref, diag_results,
               DiagGroupsFrom(_DIAG_GROUPS, diag_results))

DiagonalsOfMaster(fnt, check_names, master, n_ref, H_ref) ==
    IF ~Truthy(n_ref) /\ ~Truthy(H_ref)
    THEN [masterName |-> master.name, error |-> "No reference stems"]
    ELSE DiagonalsMeasured(master, n_ref, H_ref,
            DiagResults(fnt, check_names, master.id, n_ref, H_ref))

_diagonals_master(fnt, check_names, master) ==
    DiagonalsOfMaster(fnt, check_names, master,
        DiagReference(fnt, "n", master.id), DiagReference(fnt, "H", master.id))

\* the colours one master offers to worst_colors[gname]: 1 for an unreliable
\* glyph, which no other pass marks, 4 for a pass, 3 outside the range and 0
\* for the members of an inconsistent group
DiagMarks(result, gname) ==
    IF "diagonals" \notin DOMAIN result THEN {}
    ELSE (IF \E i \in 1..Len(result.groups) :
                /\ result.groups[i].verdict = "inconsistent"
                /\ gname \in {Plain(s) : s \in DOMAIN result.groups[i].members}
          THEN {0} ELSE {})
         \cup
         (IF gname \in DOMAIN result.diagonals /\ "verdict" \in DOMAIN result.diagonals[gname]
          THEN CASE result.diagonals[gname].verdict = "unreliable" -> {1}
                 [] result.diagonals[gname].verdict = "pass" -> {4}
                 [] result.diagonals[gname].verdict = "outside_range" -> {3}
                 [] OTHER -> {}
          ELSE {})

WorstDiagColors(results, names) ==
    [g \in {x \in names : \E mid \in DOMAIN results : DiagMarks(results[mid], x) # {}}
        |-> SetMin(UNION {DiagMarks(results[mid], g) : mid \in DOMAIN results})]

AllDiagResults(fnt, check_names, masters_to_check) ==
    [mid \in {masters_to_check[i].id : i \in 1..Len(masters_to_check)} |->
        _diagonals_master(fnt, check_names,
            CHOOSE m \in Range(masters_to_check) : m.id = mid)]

\* check_names: the requested names, or the diagonal names, that the font has
DiagCheckNames(fnt, body) ==
    LET Present(g) == HasGlyph(fnt, g)
    IN  IF body = NoBody \/ "glyphNames" \notin DOMAIN body \/ body.glyphNames = <<>>
        THEN SelectSeq([i \in 1..Len(_DIAG_LC \o _DIAG_UC) |-> Plain((_DIAG_LC \o _DIAG_UC)[i])],
                       Present)
        ELSE SelectSeq(body.glyphNames, Present)

CheckDiagonals(fnt, colors, check_names, masters_to_check, all_masters_results) ==
    WidthCheckAnswer(colors, masters_to_check, all_masters_results,
        WorstDiagColors(all_masters_results, Range(check_names)))

\* the status and result of the handler, and the glyph colours it leaves
handle_check_diagonals(fnt, colors, body) ==
    IF fnt = NoFont THEN WidthCheckError(colors, "No font open")
    ELSE IF ~Falsy(BodyMasterId(body)) /\ MastersWithId(fnt, BodyMasterId(body)) = <<>>
    THEN WidthCheckError(colors, "Master not found")
    ELSE CheckDiagonals(fnt, colors, DiagCheckNames(fnt, body),
            MastersWithId(fnt, BodyMasterId(body)),
            AllDiagResults(fnt, DiagCheckNames(fnt, body),
                MastersWithId(fnt, BodyMasterId(body))))

-----------------------------------------------------------------------------
(* handle_check_punctuation                                                *)

\* tolerance: the deviation of width_a / width_b * 100 from 100 that is
\* allowed, in tenths of a percent
_PUNCT_WIDTH_MATCH ==
    << [a |-> "parenleft", b |-> "parenright", tolerance |-> 5, severity |-> "high",
        note |-> "mirrored pair - width must match"],
       [a |-> "bracketleft", b |-> "bracketright", tolerance |-> 5, severity |-> "high",
        note |-> "mirrored pair - width must match"],
       [a |-> "braceleft", b |-> "braceright", tolerance |-> 5, severity |-> "high",
        note |-> "mirrored pair - width must match"],
       [a |-> "colon", b |-> "semicolon", tolerance |-> 150, severity |-> "medium",
        note |-> "colon and semicolon - similar set width"],
       [a |-> "period", b |-> "comma", tolerance |-> 150, severity |-> "medium",
        note |-> "period and comma - similar set width"],
       [a |-> "quotedblleft", b |-> "quotedblright", tolerance |-> 80, severity |-> "medium",
        note |-> "double quotes - similar set width"],
       [a |-> "quoteleft", b |-> "quoteright", tolerance |-> 80, severity |-> "medium",
        note |-> "single quotes - similar set width"],
       [a |-> "guillemotleft", b |-> "guillemotright", tolerance |-> 10, severity |-> "high",
        note |-> "guillemets - mirrored, width must match"],
       [a |-> "guilsinglleft", b |-> "guilsinglright", tolerance |-> 10, severity |-> "high",
        note |-> "single guillemets - mirrored, width must match"] >>

\* width_a / width_b * 100 is expected in `range`, in percent
_PUNCT_WIDTH_RATIO ==
    << [a |-> "endash", b |-> "hyphen", range |-> <<140, 280>>, severity |-> "low",
        note |-> "endash wider than hyphen (traditionally 2x)"],
       [a |-> "emdash", b |-> "endash", range |-> <<140, 230>>, severity |-> "low",
        note |-> "emdash wider than endash (traditionally 2x)"],
       [a |-> "quoteright", b |-> "comma", range |-> <<70, 115>>, severity |-> "low",
        note |-> "quoteright similar form to comma"],
       [a |-> "exclam", b |-> "question", range |-> <<40, 95>>, severity |-> "low",
        note |-> "exclamation narrower than question mark"] >>

\* `abs(ratio - 100) <= tolerance` for ratio = w_a / w_b * 100 and w_b > 0
WithinTolerance(w_a, w_b, tol) == 1000 * Abs(w_a - w_b) <= tol * w_b

\* the verdict of a width match
MatchVerdict(severity, within) ==
    IF within THEN "pass"
    ELSE IF severity = "high" THEN "inconsistent"
    ELSE "warning"

\* the verdict of a width ratio
RatioVerdict(inside) == IF inside THEN "pass" ELSE "info"

MatchResult(check, w_a, w_b) ==
    [check |-> "width_match",
     pair |-> <<check.a, check.b>>,
     widthA |-> 5 * w_a,
     widthB |-> 5 * w_b,
     ratio |-> RoundHalfEven(1000 * w_a, w_b),
     tolerance |-> check.tolerance,
     verdict |-> MatchVerdict(check.severity, WithinTolerance(w_a, w_b, check.tolerance)),
     severity |-> check.severity,
     note |-> check.note]

RatioResult(check, w_a, w_b) ==
    [check |-> "width_ratio",
     pair |-> <<check.a, check.b>>,
     widthA |-> 5 * w_a,
     widthB |-> 5 * w_b,
     ratio |-> RoundHalfEven(1000 * w_a, w_b),
     expected |-> check.range,
     verdict |-> RatioVerdict(RatioInRange(w_a, w_b, check.range)),
     severity |-> check.severity,
     note |-> check.note]

\* the pair has both glyphs in the font and its second glyph has a width
PairChecked(fnt, check, mid) ==
    /\ HasGlyph(fnt, Plain(check.a))
    /\ HasGlyph(fnt, Plain(check.b))
    /\ fnt.glyphs[Plain(check.b)].layers[mid].width # 0

RECURSIVE MatchResultsFrom(_, _, _)
MatchResultsFrom(checks, fnt, mid) ==
    IF checks = <<>> THEN <<>>
    ELSE IF ~PairChecked(fnt, Head(checks), mid) THEN MatchResultsFrom(Tail(checks), fnt, mid)
    ELSE <<MatchResult(Head(checks),
                       fnt.glyphs[Plain(Head(checks).a)].layers[mid].width,
                       fnt.glyphs[Plain(Head(checks).b)].layers[mid].width)>>
         \o MatchResultsFrom(Tail(checks), fnt, mid)

RECURSIVE RatioResultsFrom(_, _, _)
RatioResultsFrom(checks, fnt, mid) ==
    IF checks = <<>> THEN <<>>
    ELSE IF ~PairChecked(fnt, Head(checks), mid) THEN RatioResultsFrom(Tail(checks), fnt, mid)
    ELSE <<RatioResult(Head(checks),
                       fnt.glyphs[Plain(Head(checks).a)].layers[mid].width,
                       fnt.glyphs[Plain(Head(checks).b)].layers[mid].width)>>
         \o RatioResultsFrom(Tail(checks), fnt, mid)

PunctuationReport(master, check_results) ==
    [masterName |-> master.name,
     checks |-> check_results,
     summary |-> [pass |-> CountVerdict(check_results, "pass"),
                  inconsistent |-> CountVerdict(check_results, "inconsistent"),
                  warning |-> CountVerdict(check_results, "warning"),
                  info |-> CountVerdict(check_results, "info"),
                  checkedPairs |-> Len(check_results)]]

_punctuation_master(fnt, master) ==
    PunctuationReport(master,
        MatchResultsFrom(_PUNCT_WIDTH_MATCH, fnt, master.id)
        \o RatioResultsFrom(_PUNCT_WIDTH_RATIO, fnt, master.id))

\* the colour of an entry of check_results; -1 marks nothing
CheckColor(entry) ==
    CASE entry.verdict = "pass" -> 4
      [] entry.verdict = "inconsistent" -> 0
      [] entry.verdict = "warning" -> 3
      [] OTHER -> -1

\* the colours the checks of one master offer to worst_colors[gname]
CheckMarks(result, gname) ==
    {CheckColor(result.checks[i]) :
        i \in {j \in 1..Len(result.checks) :
                 /\ gname \in {Plain(result.checks[j].pair[1]), Plain(result.checks[j].pair[2])}
                 /\ CheckColor(result.checks[j]) >= 0}}

WorstCheckColors(fnt, results) ==
    [g \in {x \in DOMAIN fnt.glyphs : \E mid \in DOMAIN results : CheckMarks(results[mid], x) # {}}
        |-> SetMin(UNION {CheckMarks(results[mid], g) : mid \in DOMAIN results})]

PunctuationResults(fnt, masters_to_check) ==
    [mid \in {masters_to_check[i].id : i \in 1..Len(masters_to_check)} |->
        _punctuation_master(fnt, CHOOSE m \in Range(masters_to_check) : m.id = mid)]

CheckPunctuation(fnt, colors, masters_to_check, all_masters_results) ==
    WidthCheckAnswer(colors, masters_to_check, all_masters_results,
        WorstCheckColors(fnt, all_masters_results))

\* the status and result of the handler, and the glyph colours it leaves
handle_check_punctuation(fnt, colors, body) ==
    IF MastersWithId(fnt, BodyMasterId(body)) = <<>>
    THEN WidthCheckError(colors, "Master not found")
    ELSE CheckPunctuation(fnt, colors, MastersWithId(fnt, BodyMasterId(body)),
            PunctuationResults(fnt, MastersWithId(fnt, BodyMasterId(body))))

-----------------------------------------------------------------------------
(* The overshoot check applied to bounded fonts and requests               *)

\* x-height 500 and cap height 700, in halves of a unit
OvershootMasterLists(n) ==
    {[i \in 1..n |-> ColorMaster(CheckMasterIds[i], names[i], 1000, 1400)] :
        names \in [1..n -> MasterNames]}

\* a form from y_min to y_max, 600 units wide, with the given top nodes
Form(y_min, y_max, top_xs) == OvershootLayer(TRUE, TRUE, y_min, y_max, 1200, top_xs, <<>>)
Outlineless == OvershootLayer(FALSE, FALSE, 0, 0, 1200, <<>>, <<>>)

OvershootLayers(n) ==
    IF n = 1
    THEN (Plain("o") :> {Form(-20, 1020, <<>>), Form(0, 1000, <<>>),
                         Form(-100, 1100, <<>>), Outlineless})
         @@ (Plain("O") :> {Form(-20, 1420, <<>>), Form(0, 1400, <<>>)})
         @@ (Plain("A") :> {Form(0, 1400, <<600>>), Form(0, 1400, <<400, 800>>)})
         @@ (Plain("zero") :> {Form(-20, 1320, <<>>)})
         @@ (Plain("seven") :> {Form(0, 1300, <<>>), Outlineless})
    ELSE (Plain("o") :> {Form(-20, 1020, <<>>), Form(0, 1000, <<>>)})
         @@ (Plain("A") :> {Form(0, 1400, <<600>>), Form(0, 1400, <<400, 800>>)})

OvershootFonts ==
    UNION {{[masters |-> ms, glyphs |-> gs] :
                ms \in OvershootMasterLists(n),
                gs \in GlyphsWithLayers(n, OvershootLayers(n), DOMAIN OvershootLayers(n))} :
           n \in 1..Len(CheckMasterIds)}

OvershootBodies ==
    {NoBody} \cup
    {[masterId |-> mid] : mid \in {"", "m2", "zz"}} \cup
    {[glyphNames |-> gl, masterId |-> mid] :
        gl \in {<<Plain("o"), Plain("O")>>,
                <<Plain("zz"), Plain("A"), Plain("zero"), Plain("o")>>},
        mid \in {None, "m1", "zz"}}

HandleCheckOvershoots ==
    /\ request.route = "overshoots/check"
    /\ response = Pending
    /\ LET out == handle_check_overshoots(font, glyphColor, request.body)
       IN  /\ response' = [status |-> out.status, result |-> out.result]
           /\ glyphColor' = out.colors
    /\ UNCHANGED <<font, request, stemVars, domVars, sysVars>>

-----------------------------------------------------------------------------
(* The diagonal check applied to bounded fonts and requests                *)

DiagStem(t) == DiagLayer(TRUE, <<t>>, <<>>)
HorizontalOnly == DiagLayer(TRUE, <<>>, <<70>>)
Boundless == DiagLayer(FALSE, <<>>, <<>>)

DiagLayers(n) ==
    IF n = 1
    THEN (Plain("n") :> {DiagStem(80), DiagStem(20), Boundless})
         @@ (Plain("H") :> {DiagStem(90)})
         @@ (Plain("v") :> {DiagStem(76), DiagStem(60), HorizontalOnly})
         @@ (Plain("w") :> {DiagStem(76), DiagStem(70)})
         @@ (Plain("x") :> {DiagStem(80)})
         @@ (Plain("V") :> {DiagStem(90), Boundless})
         @@ (Plain("A") :> {DiagStem(100)})
    ELSE (Plain("n") :> {DiagStem(80)})
         @@ (Plain("v") :> {DiagStem(76), DiagStem(60)})
         @@ (Plain("w") :> {DiagStem(76)})

DiagFonts ==
    UNION {{[masters |-> ms, glyphs |-> gs] :
                ms \in WidthMasterLists(n),
                gs \in GlyphsWithLayers(n, DiagLayers(n), DOMAIN DiagLayers(n))} :
           n \in 1..Len(CheckMasterIds)}

DiagBodies ==
    {NoBody} \cup
    {[masterId |-> mid] : mid \in {"", "m2", "zz"}} \cup
    {[glyphNames |-> gl, masterId |-> mid] :
        gl \in {<<Plain("v"), Plain("w")>>,
                <<Plain("x"), Plain("zz"), Plain("V"), Plain("v")>>},
        mid \in {None, "m1", "zz"}}

HandleCheckDiagonals ==
    /\ request.route = "diagonals/check"
    /\ response = Pending
    /\ LET out == handle_check_diagonals(font, glyphColor, request.body)
       IN  /\ response' = [status |-> out.status, result |-> out.result]
           /\ glyphColor' = out.colors
    /\ UNCHANGED <<font, request, stemVars, domVars, sysVars>>

-----------------------------------------------------------------------------
(* The punctuation check applied to bounded fonts and requests             *)

\* advance widths in halves of a unit
PunctuationWidths(n) ==
    IF n = 1
    THEN (Plain("parenleft") :> {600}) @@ (Plain("parenright") :> {0, 600, 604})
         @@ (Plain("period") :> {500}) @@ (Plain("comma") :> {500, 600})
         @@ (Plain("endash") :> {1000}) @@ (Plain("hyphen") :> {600, 1000})
         @@ (Plain("quoteright") :> {500})
    ELSE (Plain("parenleft") :> {600}) @@ (Plain("parenright") :> {600, 604})

PunctuationFonts ==
    UNION {{[masters |-> ms, glyphs |-> gs] :
                ms \in WidthMasterLists(n),
                gs \in WidthGlyphsOfFont(n, PunctuationWidths(n),
                          DOMAIN PunctuationWidths(n))} :
           n \in 1..Len(CheckMasterIds)}

PunctuationBodies ==
    {NoBody} \cup {[masterId |-> mid] : mid \in {None, "", "m1", "m2", "zz"}}

HandleCheckPunctuation ==
    /\ request.route = "punctuation/check"
    /\ response = Pending
    /\ LET out == handle_check_punctuation(font, glyphColor, request.body)
       IN  /\ response' = [status |-> out.status, result |-> out.result]
           /\ glyphColor' = out.colors
    /\ UNCHANGED <<font, request, stemVars, domVars, sysVars>>

-----------------------------------------------------------------------------
(* The batch checks together: one request to one of the nine routes        *)

CheckRoutes ==
    {"stems/compare", "color/compare", "color/audit", "overshoots/check",
     "proportions/compare", "diagonals/check", "junctions/check",
     "related-forms/check", "punctuation/check"}

\* the fonts of a family that hold every glyph a font of as many masters may
\* hold
Whole(fonts, held) == {f \in fonts : DOMAIN f.glyphs = held[Len(f.masters)]}

FontsOf(route) ==
    CASE route = "stems/compare" -> Whole(FailureFonts, <<DOMAIN FailureLayers(1), DOMAIN FailureLayers(2)>>)
      [] route \in {"color/compare", "color/audit"} -> Whole(ColorFonts, <<ColorUniverse(1), ColorUniverse(2)>>)
      [] route = "overshoots/check" -> Whole(OvershootFonts, <<DOMAIN OvershootLayers(1), DOMAIN OvershootLayers(2)>>)
      [] route = "proportions/compare" -> Whole(ProportionFonts, <<DOMAIN ProportionWidths(1), DOMAIN ProportionWidths(2)>>)
      [] route = "diagonals/check" -> Whole(DiagFonts, <<DOMAIN DiagLayers(1), DOMAIN DiagLayers(2)>>)
      [] route = "junctions/check" -> Whole(JunctionFonts, <<DOMAIN JunctionLayers(1), DOMAIN JunctionLayers(2)>>)
      [] route = "related-forms/check" -> Whole(RelatedFonts, <<DOMAIN RelatedWidths(1), DOMAIN RelatedWidths(2)>>)
      [] route = "punctuation/check" -> Whole(PunctuationFonts, <<DOMAIN PunctuationWidths(1), DOMAIN PunctuationWidths(2)>>)

BodiesOf(route) ==
    CASE route = "stems/compare" -> StemBodies
      [] route = "color/compare" -> ColorBodies
      [] route = "color/audit" -> AuditBodies
      [] route = "overshoots/check" -> OvershootBodies
      [] route = "proportions/compare" -> ProportionBodies
      [] route = "diagonals/check" -> DiagBodies
      [] route = "junctions/check" -> JunctionBodies
      [] route = "related-forms/check" -> RelatedBodies
      [] route = "punctuation/check" -> PunctuationBodies

InitChecks ==
    /\ StemIdle
    /\ SysIdle
    /\ DomIdle
    /\ \E route \in CheckRoutes :
          /\ font \in FontsOf(route)
          /\ request \in {Call(route, b) : b \in BodiesOf(route)}
    /\ glyphColor = [g \in DOMAIN font.glyphs |-> NoValue]
    /\ response = Pending

ChecksNext ==
    \/ HandleStemsRequest
    \/ HandleCompareColor
    \/ HandleColorAudit
    \/ HandleCheckOvershoots
    \/ HandleCompareProportions
    \/ HandleCheckDiagonals
    \/ HandleCheckJunctions
    \/ HandleCheckRelatedForms
    \/ HandleCheckPunctuation

SpecChecks == InitChecks /\ [][ChecksNext]_vars

-----------------------------------------------------------------------------
(* Properties of the batch checks                                          *)

\* the request names a master and the font has no master of that id
AsksUnknownMaster ==
    /\ ~Falsy(BodyMasterId(request.body))
    /\ \A i \in 1..Len(font.masters) : font.masters[i].id # BodyMasterId(request.body)

\* the handler answered with per-master results
ReportsMasters ==
    /\ response # Pending
    /\ response.status = 200
    /\ "masters" \in DOMAIN response.result

\* the entry of a stem comparison for the name gname in the master mid
StemEntryFits(gname, mid, e) ==
    IF ~HasGlyph(font, gname) THEN e = [glyph |-> gname, error |-> "not found"]
    ELSE IF ~font.glyphs[gname].layers[mid].outlines
    THEN e = [glyph |-> gname, error |-> "no outlines"]
    ELSE /\ e.glyph = gname
         /\ "error" \in DOMAIN e => e.error \notin {"not found", "no outlines"}

\* the entry of a colour comparison for the name gname in the master mid
ColorEntryFits(gname, mid, e) ==
    IF ~HasGlyph(font, gname)
    THEN e = [glyph |-> gname, verdict |-> "error", note |-> "not found"]
    ELSE IF ~font.glyphs[gname].layers[mid].outlines
    THEN e = [glyph |-> gname, verdict |-> "error", note |-> "no outlines"]
    ELSE /\ e.glyph = gname
         /\ "note" \in DOMAIN e => e.note \notin {"not found", "no outlines"}

C11_UnknownMasterRejected ==
    [][(response = Pending /\ response' # Pending /\ AsksUnknownMaster) =>
            /\ DOMAIN response'.result = {"error"}
            /\ response'.status \in {200, 400}
            /\ glyphColor' = glyphColor]_vars

\* a junction check asked for the master zz answered with the error alone
C11_Witness ==
    /\ request.route = "junctions/check"
    /\ AsksUnknownMaster
    /\ response # Pending
    /\ DOMAIN response.result = {"error"}

-----------------------------------------------------------------------------
(* The pass tag of the stem comparison                                     *)

\* the evaluations of gname that carry a verdict, each analysed master taken
\* on its own
VerdictEntries(gname) ==
    {x \in UNION {Range(_analyze_one_master(font, request.glyphNames, m.id).glyphs) :
                     m \in Analysed} :
        x.glyph = gname /\ "verdict" \in DOMAIN x}

\* C29, as stated: compare_stems tags a glyph with the pass colour 4 only if
\* the glyph has at least one evaluation carrying a verdict and none of its
\* evaluations on an analysed master is worse than pass.  Violated: a glyph
\* whose entries are all error entries is tagged 4.
C29_PassTagNeedsVerdict ==
    Answered =>
        \A g \in Requested :
            (HasGlyph(font, g) /\ glyphColor[g] = Some(4)) =>
                /\ VerdictEntries(g) # {}
                /\ \A c \in EvaluationColors(g) : c >= 4

-----------------------------------------------------------------------------
(* handle_rmx_tune and handle_rmx_batch                                    *)
(*                                                                         *)
(* A master carries its position on each axis of the font; a layer its     *)
(* paths as a list of node counts, the geometry of its nodes as a revision *)
(* number that every rewrite of the paths raises, and its advance width.   *)

TuneMaster(id, axes) == [id |-> id, axes |-> axes]

TuneLayer(paths, revision, width) ==
    [paths |-> paths, revision |-> revision, width |-> width]

\* json.dumps of a tuple or a list
JsonArray(seq) == [array |-> seq]

\* body.get(key, default)
BodyGet(body, key, default) == IF key \in DOMAIN body THEN body[key] ELSE default

\* the position of the axis named Weight in font.axes, 0 without one
WeightAxis(fnt) ==
    IF \E i \in 1..Len(fnt.axes) : fnt.axes[i] = "Weight"
    THEN CHOOSE i \in 1..Len(fnt.axes) :
            fnt.axes[i] = "Weight" /\ \A j \in 1..(i - 1) : fnt.axes[j] # "Weight"
    ELSE 0

\* axis_values: the Weight position of every master
AxisValues(fnt) ==
    IF WeightAxis(fnt) = 0 THEN <<>>
    ELSE [i \in 1..Len(fnt.masters) |-> fnt.masters[i].axes[WeightAxis(fnt)]]

\* active_idx: the first master with the id asked for, else the first master
ActiveIdx(fnt, master_id) ==
    IF ~Falsy(master_id) /\ \E i \in 1..Len(fnt.masters) : fnt.masters[i].id = master_id
    THEN CHOOSE i \in 1..Len(fnt.masters) :
            /\ fnt.masters[i].id = master_id
            /\ \A j \in 1..(i - 1) : fnt.masters[j].id # master_id
    ELSE 1

\* other_idx: the first master farthest from the active one on the axis
OtherIdx(axis_values, active_idx) ==
    LET Dist(i) == Abs(axis_values[i] - axis_values[active_idx])
        others == {i \in 1..Len(axis_values) : i # active_idx /\ Dist(i) > 0}
    IN  IF others = {} THEN 1
        ELSE CHOOSE i \in others :
                /\ \A j \in others : Dist(j) <= Dist(i)
                /\ \A j \in others : j < i => Dist(j) < Dist(i)

\* len(target_layer.paths) == len(other_layer.paths) and every pair of paths
\* has as many nodes
Compatible(target_layer, other_layer) == target_layer.paths = other_layer.paths

\* has_any
HasAny(body) ==
    \/ BodyGet(body, "weight", 0) # 0
    \/ BodyGet(body, "width", 0) # 0
    \/ BodyGet(body, "height", 0) # 0
    \/ BodyGet(body, "slant", 0) # 0

\* the layer after steps 1 to 4: each step that applies rewrites the nodes;
\* the advance width after the steps is new_width, or the width before when
\* fixedWidth is set
TunedLayer(layer, body, new_width) ==
    [layer EXCEPT
        !.revision = @ + (IF BodyGet(body, "weight", 0) # 0 THEN 1 ELSE 0)
                       + (IF BodyGet(body, "width", 0) # 0 \/ BodyGet(body, "height", 0) # 0
                          THEN 1 ELSE 0)
                       + (IF BodyGet(body, "slant", 0) # 0 THEN 1 ELSE 0),
        !.width = IF BodyGet(body, "fixedWidth", FALSE) THEN layer.width ELSE new_width]

TuneAnswer(fnt, gname, method, width_before, width_after) ==
    [out |-> Return([ok |-> TRUE, glyphName |-> gname, method |-> method,
                     widthBefore |-> width_before, widthAfter |-> width_after]),
     font |-> fnt]

TuneRefusal(fnt, message) ==
    [out |-> Return(JsonArray(<<400, [error |-> message]>>)), font |-> fnt]

\* the steps of _tune once the axis range is known to be non-zero
TuneSteps(fnt, body, gname, target_id, other_id, new_width) ==
    IF ~HasAny(body)
    THEN TuneAnswer(fnt, gname, "no_change", fnt.glyphs[gname].layers[target_id].width,
                    fnt.glyphs[gname].layers[target_id].width)
    ELSE IF /\ BodyGet(body, "weight", 0) # 0
            /\ ~Compatible(fnt.glyphs[gname].layers[target_id],
                           fnt.glyphs[gname].layers[other_id])
    THEN [out |-> Raised("RuntimeError"), font |-> fnt]
    ELSE TuneAnswer(
            [fnt EXCEPT !.glyphs[gname].layers[target_id] =
                TunedLayer(@, body, new_width)],
            gname, "tuner", fnt.glyphs[gname].layers[target_id].width,
            TunedLayer(fnt.glyphs[gname].layers[target_id], body, new_width).width)

\* _tune on the main thread: what it returns or raises, and the font it
\* leaves
_tune(fnt, body, new_width) ==
    IF Len(fnt.masters) < 2 THEN TuneRefusal(fnt, "Tuner requires at least 2 masters")
    ELSE IF ~HasGlyph(fnt, body.glyphName) THEN [out |-> Raised("KeyError"), font |-> fnt]
    ELSE IF Len(AxisValues(fnt)) < 2
    THEN TuneRefusal(fnt, "No Weight axis found with 2+ masters")
    ELSE IF SetMax(Range(AxisValues(fnt))) - SetMin(Range(AxisValues(fnt))) = 0
    THEN TuneRefusal(fnt, "Weight axis range is zero")
    ELSE TuneSteps(fnt, body, body.glyphName,
            fnt.masters[ActiveIdx(fnt, BodyGet(body, "masterId", None))].id,
            fnt.masters[OtherIdx(AxisValues(fnt),
                            ActiveIdx(fnt, BodyGet(body, "masterId", None)))].id,
            new_width)

\* the handler: the status and result it returns, or the exception that
\* leaves it, and the font it leaves
TuneOutcome(tuned) ==
    IF tuned.out.status = 1
    THEN [raised |-> None, status |-> 200, result |-> tuned.out.result, font |-> tuned.font]
    ELSE [raised |-> tuned.out.raised, status |-> 0, result |-> <<>>, font |-> tuned.font]

handle_rmx_tune(fnt, body, new_width) ==
    IF body = NoBody \/ "glyphName" \notin DOMAIN body
    THEN [raised |-> None, status |-> 400,
          result |-> [error |-> "Body must contain 'glyphName'"], font |-> fnt]
    ELSE TuneOutcome(_tune(fnt, body, new_width))

RECURSIVE BatchLoop(_, _, _, _, _, _)

\* results.append(...) for one glyph: the result the handler returned, or
\* the error entry for the exception that left it
BatchStep(glyph_names, master_id, params, new_width, results, outcome) ==
    BatchLoop(outcome.font, Tail(glyph_names), master_id, params, new_width,
        Append(results,
            IF outcome.raised = None THEN outcome.result
            ELSE [glyphName |-> Head(glyph_names), error |-> outcome.raised]))

\* the loop of handle_rmx_batch over glyph_names with the filter tune
BatchLoop(fnt, glyph_names, master_id, params, new_width, results) ==
    IF glyph_names = <<>> THEN [results |-> results, font |-> fnt]
    ELSE BatchStep(glyph_names, master_id, params, new_width, results,
            handle_rmx_tune(fnt,
                params @@ [glyphName |-> Head(glyph_names), masterId |-> master_id],
                new_width))

BatchAnswer(looped) ==
    [raised |-> None, status |-> 200,
     result |-> [ok |-> TRUE, filter |-> "tune", processed |-> Len(looped.results),
                 results |-> looped.results],
     font |-> looped.font]

\* the requests of the batch name the filter tune or an unknown filter
handle_rmx_batch(fnt, body, new_width) ==
    IF body = NoBody \/ "filter" \notin DOMAIN body \/ "glyphNames" \notin DOMAIN body
    THEN [raised |-> None, status |-> 400,
          result |-> [error |-> "Body must contain 'filter' and 'glyphNames'"],
          font |-> fnt]
    ELSE IF body.filter \notin {"harmonize", "tune", "scale", "monospace"}
    THEN [raised |-> None, status |-> 400, result |-> [error |-> "Invalid filter"],
          font |-> fnt]
    ELSE BatchAnswer(
            BatchLoop(fnt, body.glyphNames, BodyGet(body, "masterId", None),
                      BodyGet(body, "params", <<>>), new_width, <<>>))

-----------------------------------------------------------------------------
(* Tune requests on bounded fonts                                          *)

\* what _handle_request sends for the handler's outcome
Sent(outcome) ==
    IF outcome.raised = None THEN [status |-> outcome.status, result |-> outcome.result]
    ELSE [status |-> 500, result |-> [error |-> "exception", type |-> outcome.raised]]

TuneAxes(n) == IF n = 1 THEN {<<>>, <<"Weight">>} ELSE {<<>>, <<"Weight">>, <<"Width", "Weight">>}

\* masters at 400 or 700 on every axis
TuneMasterLists(n, axes) ==
    {[i \in 1..n |-> TuneMaster(CheckMasterIds[i], [a \in 1..Len(axes) |-> at[i]])] :
        at \in [1..n -> {400, 700}]}

\* R with one or two paths of four nodes; o, when the font has it, with one
TuneGlyphs(n) ==
    {(Plain("R") :> (GlyphData(Plain("R")) @@ [layers |-> ls])) @@ rest :
        ls \in [{CheckMasterIds[i] : i \in 1..n} ->
                  {TuneLayer(<<4>>, 0, 600), TuneLayer(<<4, 4>>, 0, 600)}],
        rest \in {<<>>,
                  Plain("o") :> (GlyphData(Plain("o")) @@
                      [layers |-> [mid \in {CheckMasterIds[i] : i \in 1..n} |->
                                      TuneLayer(<<4>>, 0, 500)]])}}

TuneFonts ==
    UNION {{[masters |-> ms, glyphs |-> gs, axes |-> axes] :
                ms \in TuneMasterLists(n, axes), gs \in TuneGlyphs(n)} :
           <<n, axes>> \in {x \in (1..Len(CheckMasterIds)) \X TuneAxes(2) :
                               x[2] \in TuneAxes(x[1])}}

TuneBodies ==
    {NoBody} \cup
    {[glyphName |-> g, weight |-> w, slant |-> s, fixedWidth |-> fw] :
        g \in {Plain("R"), Plain("zz")}, w \in {0, 30}, s \in {0, 12}, fw \in BOOLEAN} \cup
    {[glyphName |-> Plain("R"), weight |-> w, masterId |-> mid] :
        w \in {0, 30}, mid \in {"m2", "zz"}}

BatchBodies ==
    {NoBody, [filter |-> "zz", glyphNames |-> <<Plain("R")>>]} \cup
    {[filter |-> "tune", glyphNames |-> gl, params |-> ps, masterId |-> mid] :
        gl \in {<<Plain("R"), Plain("o")>>, <<Plain("zz"), Plain("R")>>},
        ps \in {<<>>, [weight |-> 30], [slant |-> 12, fixedWidth |-> TRUE]},
        mid \in {None, "m2"}}

InitTune ==
    /\ StemIdle
    /\ SysIdle
    /\ DomIdle
    /\ font \in TuneFonts
    /\ glyphColor = [g \in DOMAIN font.glyphs |-> NoValue]
    /\ request \in {Call("filters/rmx/tune", b) : b \in TuneBodies}
                   \cup {Call("filters/rmx/batch", b) : b \in BatchBodies}
    /\ response = Pending

HandleRmxTune ==
    /\ request.route = "filters/rmx/tune"
    /\ response = Pending
    /\ \E new_width \in {600, 640} :
          LET outcome == handle_rmx_tune(font, request.body, new_width)
          IN  /\ response' = Sent(outcome)
              /\ font' = outcome.font
    /\ UNCHANGED <<glyphColor, request, stemVars, domVars, sysVars>>

HandleRmxBatch ==
    /\ request.route = "filters/rmx/batch"
    /\ response = Pending
    /\ \E new_width \in {600, 640} :
          LET outcome == handle_rmx_batch(font, request.body, new_width)
          IN  /\ response' = Sent(outcome)
              /\ font' = outcome.font
    /\ UNCHANGED <<glyphColor, request, stemVars, domVars, sysVars>>

TuneNext == HandleRmxTune \/ HandleRmxBatch

SpecTune == InitTune /\ [][TuneNext]_vars

-----------------------------------------------------------------------------
(* Properties of the tune requests                                         *)

\* fewer than two masters, or no Weight axis spanning a non-zero range
CannotTune ==
    \/ Len(font.masters) < 2
    \/ AxisValues(font) = <<>>
    \/ SetMax(Range(AxisValues(font))) = SetMin(Range(AxisValues(font)))

\* the request names a glyph to tune
AsksTune ==
    \/ request.route = "filters/rmx/tune" /\ request.body # NoBody
    \/ /\ request.route = "filters/rmx/batch"
       /\ request.body # NoBody
       /\ request.body.filter = "tune"

\* C24, as stated: on a font that cannot be tuned, a tune request, made
\* directly or through the batch, is answered with status 400 and an error
\* object, and the font is left as it was.  Violated: the answer has
\* status 200.
C24_TuneRefused ==
    [][(response = Pending /\ response' # Pending /\ CannotTune /\ AsksTune) =>
            /\ response'.status = 400
            /\ "error" \in DOMAIN response'.result
            /\ font' = font]_vars

-----------------------------------------------------------------------------
(* server.py: MCPRequestHandler._handle_request                            *)

\* path.rstrip("/").split("/") on a path given by its segments: the empty
\* segments at the end go, the first segment stays
RECURSIVE Rstrip(_)
Rstrip(parts) ==
    IF Len(parts) > 1 /\ parts[Len(parts)] = "" THEN Rstrip(SubSeq(parts, 1, Len(parts) - 1))
    ELSE parts

\* the pattern segments that start with "{" and end with "}"
ParamSegments == {"{name}"}

\* four of the registered routes, in registration order
ROUTES ==
    << [method |-> "GET", pattern |-> <<"", "api", "font", "glyphs">>],
       [method |-> "GET", pattern |-> <<"", "api", "font", "glyphs", "{name}">>],
       [method |-> "DELETE", pattern |-> <<"", "api", "font", "glyphs", "{name}">>],
       [method |-> "POST", pattern |-> <<"", "api", "execute">>] >>

\* _match_pattern: the captured parameters, or no match
_match_pattern(pattern, path) ==
    IF Len(Rstrip(pattern)) # Len(path) THEN [matched |-> FALSE]
    ELSE IF \E i \in 1..Len(path) :
                Rstrip(pattern)[i] \notin ParamSegments /\ Rstrip(pattern)[i] # path[i]
         THEN [matched |-> FALSE]
    ELSE [matched |-> TRUE,
          params |-> {<<Rstrip(pattern)[i], path[i]>> :
                         i \in {j \in 1..Len(path) : Rstrip(pattern)[j] \in ParamSegments}}]

\* _match_route: the first route of the method whose pattern matches
_match_route(method, path) ==
    LET hits == {i \in 1..Len(ROUTES) :
                    /\ ROUTES[i].method = method
                    /\ _match_pattern(ROUTES[i].pattern, path).matched}
    IN  IF hits = {} THEN NoValue ELSE Some(SetMin(hits))

\* json.loads on bytes: the bytes are decoded as UTF-8 first, then parsed;
\* of the bodies over "{" (123), "}" (125) and 0xFF only "{}" is JSON
json_loads(raw) ==
    IF \E i \in 1..Len(raw) : raw[i] >= 128 THEN [raised |-> "UnicodeDecodeError"]
    ELSE IF raw = <<123, 125>> THEN [raised |-> None, value |-> <<>>]
    ELSE [raised |-> "JSONDecodeError"]

\* what the thread of the request has sent, and the exception that ended it
Sends(sent, raised) == [sent |-> sent, raised |-> raised]

\* _send_json
_send_json(status, data) == Sends(<<[status |-> status, data |-> data]>>, None)

\* the try block around the handler call
CallHandler(handler) ==
    IF handler.raised = None THEN _send_json(handler.status, "result")
    ELSE IF handler.raised = "TimeoutError" THEN _send_json(503, "error")
    ELSE _send_json(500, "error")

\* the part of _handle_request after the body was read
Dispatch(req, path) ==
    IF _match_route(req.method, path) = NoValue THEN _send_json(404, "not found")
    ELSE CallHandler(req.handler)

\* reading the body of a POST or DELETE whose Content-Length is a number
ReadBody(req, content_length, loaded) ==
    IF content_length <= 0 THEN Dispatch(req, Rstrip(req.path))
    ELSE IF loaded.raised = "JSONDecodeError" THEN _send_json(400, "Invalid JSON")
    ELSE IF loaded.raised # None THEN Sends(<<>>, loaded.raised)
    ELSE Dispatch(req, Rstrip(req.path))

\* a Content-Length header: absent, the length of the body, or not a number
NoLength == "absent"
BadLength == "abc"

_handle_request(req) ==
    IF req.method \notin {"POST", "DELETE"} THEN Dispatch(req, Rstrip(req.path))
    ELSE IF req.length = BadLength THEN Sends(<<>>, "ValueError")
    ELSE ReadBody(req, IF req.length = NoLength THEN 0 ELSE Len(req.raw),
                  json_loads(req.raw))

-----------------------------------------------------------------------------
(* HTTP requests, with the handler's behaviour as an input                 *)

MaxBody == 2

HttpPaths ==
    { <<"">>, <<"", "api", "execute">>, <<"", "api", "execute", "">>,
      <<"", "api", "font", "glyphs">>, <<"", "api", "font", "glyphs", "A">>,
      <<"", "api", "zz">> }

HttpBodies == UNION {[1..n -> {123, 125, 255}] : n \in 0..MaxBody}

HandlerBehaviours ==
    {[raised |-> None, status |-> s] : s \in {200, 400}} \cup
    {[raised |-> e] : e \in {"TimeoutError", "KeyError"}}

HttpRequests ==
    {[method |-> m, path |-> p, length |-> l, raw |-> raw, handler |-> h] :
        m \in {"GET", "POST", "DELETE"}, p \in HttpPaths,
        l \in {NoLength, "numeric", BadLength}, raw \in HttpBodies,
        h \in HandlerBehaviours}

InitHttp ==
    /\ StemIdle
    /\ SysIdle
    /\ DomIdle
    /\ font = NoFont
    /\ glyphColor = <<>>
    /\ request \in HttpRequests
    /\ response = Pending

HandleRequest ==
    /\ response = Pending
    /\ "handler" \in DOMAIN request
    /\ response' = _handle_request(request)
    /\ UNCHANGED <<font, glyphColor, request, stemVars, domVars, sysVars>>

HttpNext == HandleRequest

SpecHttp == InitHttp /\ [][HttpNext]_vars

-----------------------------------------------------------------------------
(* Properties of the HTTP requests                                         *)

\* the body of the request is read and is not JSON
Undecodable ==
    /\ request.method \in {"POST", "DELETE"}
    /\ request.length = "numeric"
    /\ request.raw # <<>>
    /\ json_loads(request.raw).raised # None

\* the status the request is to be answered with
StatusDue ==
    IF Undecodable THEN 400
    ELSE IF _match_route(request.method, Rstrip(request.path)) = NoValue THEN 404
    ELSE IF request.handler.raised = "TimeoutError" THEN 503
    ELSE IF request.handler.raised # None THEN 500
    ELSE request.handler.status

\* C26, as stated: every request gets exactly one response, with status 400
\* for an undecodable body, else 404 for no route, else 503 for a handler
\* that raised TimeoutError, else 500 for one that raised anything else,
\* else the handler's status.  Violated: a body that is not UTF-8 gets no
\* response.
C26_OneResponse ==
    (response # Pending /\ request.length # BadLength) =>
        /\ Len(response.sent) = 1
        /\ response.sent[1].status = StatusDue

-----------------------------------------------------------------------------
(* bridge.py: WorkItem and MainThreadBridge                                *)

\* WorkItem.__init__: the event is clear, no result and no error yet
WorkItem(func) == [func |-> func, event |-> FALSE, result |-> None, error |-> None]

\* MainThreadBridge.__init__ followed by start(): running, the timer scheduled
MainThreadBridge == [_running |-> FALSE, _timer |-> FALSE, _queue |-> <<>>]

BridgeStart(b) ==
    IF b._running THEN b ELSE [b EXCEPT !._running = TRUE, !._timer = TRUE]

\* a queue that hands out its newest item first
TakesNewest(queue) == [item |-> queue[Len(queue)], rest |-> SubSeq(queue, 1, Len(queue) - 1)]

\* queue.get_nowait on a queue that is not empty: the oldest item
get_nowait(queue) == [item |-> Head(queue), rest |-> Tail(queue)]

\* items a single tick of drainQueue_ processes at most
DRAIN_CAP == 10

-----------------------------------------------------------------------------
(* handlers.py: the functions the glyph and execute handlers run on the    *)
(* main thread; font.glyphs is the list of the font's glyphs               *)

\* font.glyphs[name]: the position of the first glyph of that name, 0 for None
GlyphIndex(fnt, name) ==
    IF \E i \in 1..Len(fnt.glyphs) : fnt.glyphs[i].name = name
    THEN SetMin({i \in 1..Len(fnt.glyphs) : fnt.glyphs[i].name = name})
    ELSE 0

\* what a function run on the main thread leaves: its return value or the
\* exception it raised, and the font after it
Ran(result, raised, fnt) == [result |-> result, raised |-> raised, font |-> fnt]

\* float(width) succeeds
Floatable(width) == "number" \in DOMAIN width

\* a create that appends without looking for the name
CreatesUnchecked(fnt, glyph_name, width) ==
    Ran([ok |-> TRUE, glyphName |-> glyph_name], None,
        [fnt EXCEPT !.glyphs = Append(@, [name |-> glyph_name])])

_create_glyph(fnt, glyph_name, width) ==
    IF GlyphIndex(fnt, glyph_name) # 0 THEN Ran(None, "ValueError", fnt)
    ELSE IF ~Floatable(width)
         THEN Ran(None, "ValueError",
                  [fnt EXCEPT !.glyphs = Append(@, [name |-> glyph_name])])
    ELSE Ran([ok |-> TRUE, glyphName |-> glyph_name], None,
             [fnt EXCEPT !.glyphs = Append(@, [name |-> glyph_name])])

\* del font.glyphs[name]
Without(glyphs, i) == SubSeq(glyphs, 1, i - 1) \o SubSeq(glyphs, i + 1, Len(glyphs))

_delete(fnt, name) ==
    IF GlyphIndex(fnt, name) = 0 THEN Ran(None, "KeyError", fnt)
    ELSE Ran([ok |-> TRUE, deleted |-> name], None,
             [fnt EXCEPT !.glyphs = Without(@, GlyphIndex(fnt, name))])

_rename(fnt, name, new_name) ==
    IF GlyphIndex(fnt, name) = 0 THEN Ran(None, "KeyError", fnt)
    ELSE IF GlyphIndex(fnt, new_name) # 0 THEN Ran(None, "ValueError", fnt)
    ELSE Ran([ok |-> TRUE, oldName |-> name, newName |-> new_name], None,
             [fnt EXCEPT !.glyphs[GlyphIndex(fnt, name)].name = new_name])

_duplicate(fnt, name, new_name) ==
    IF GlyphIndex(fnt, name) = 0 THEN Ran(None, "KeyError", fnt)
    ELSE IF GlyphIndex(fnt, new_name) # 0 THEN Ran(None, "ValueError", fnt)
    ELSE Ran([ok |-> TRUE, source |-> name, newName |-> new_name], None,
             [fnt EXCEPT !.glyphs = Append(@, [name |-> new_name])])

\* handle_execute: the preference read, and the submitted code run
_check_allowed(fnt, dflts) == Ran(dflts.allowExecute, None, fnt)

_execute(fnt, code) == Ran([ok |-> TRUE, output |-> code], None, fnt)

\* item.func(*item.args, **item.kwargs) for the functions of the model; a
\* function of a handler not modelled returns its value or raises
Run(func, fnt, dflts) ==
    CASE func.name = "value" -> Ran(func.value, None, fnt)
      [] func.name = "raise" -> Ran(None, func.type, fnt)
      [] func.name = "_check_allowed" -> _check_allowed(fnt, dflts)
      [] func.name = "_execute" -> _execute(fnt, func.code)
      [] func.name = "_create_glyph" -> _create_glyph(fnt, func.glyph_name, func.width)
      [] func.name = "_delete" -> _delete(fnt, func.glyph)
      [] func.name = "_rename" -> _rename(fnt, func.glyph, func.new_name)
      [] func.name = "_duplicate" -> _duplicate(fnt, func.glyph, func.new_name)

-----------------------------------------------------------------------------
(* The handlers as programs of a request thread: what they do before the   *)
(* first execute_on_main, and with the value it returned                   *)

\* the next step of a handler: an answer, or a function for the main thread
Answer(status, result) == [answered |-> TRUE, status |-> status, result |-> result]
Submit(func) == [answered |-> FALSE, func |-> func]

\* _handle_request's answer for a handler that raised
Failed(raised) ==
    IF raised = "TimeoutError" THEN Answer(503, [error |-> raised])
    ELSE Answer(500, [error |-> raised, type |-> raised])

HasKey(body, key) == body # NoBody /\ key \in DOMAIN body

\* the handler up to its first execute_on_main
Begin(op) ==
    CASE op.handler = "call" -> Submit(op.func)
      [] op.handler = "execute" ->
            IF ~HasKey(op.body, "code") THEN Answer(400, [error |-> "Body must contain 'code'"])
            ELSE Submit([name |-> "_check_allowed"])
      [] op.handler = "create" ->
            IF ~HasKey(op.body, "name") THEN Answer(400, [error |-> "Body must contain 'name'"])
            ELSE Submit([name |-> "_create_glyph", glyph_name |-> op.body.name,
                         width |-> op.body.width])
      [] op.handler = "delete" -> Submit([name |-> "_delete", glyph |-> op.name])
      [] op.handler \in {"rename", "duplicate"} ->
            IF ~HasKey(op.body, "newName")
            THEN Answer(400, [error |-> "Body must contain 'newName'"])
            ELSE Submit([name |-> IF op.handler = "rename" THEN "_rename" ELSE "_duplicate",
                         glyph |-> op.name, new_name |-> op.body.newName])

\* the handler after its stage-th execute_on_main returned result
Continue(op, stage, result) ==
    CASE op.handler = "execute" /\ stage = 1 ->
            IF ~result THEN Answer(403, [error |-> "Execute endpoint disabled"])
            ELSE Submit([name |-> "_execute", code |-> op.body.code])
      [] op.handler = "create" -> Answer(201, result)
      [] OTHER -> Answer(200, result)

\* a request thread at the step the handler has reached
Thread(op, stage, bridge, step) ==
    [op |-> op, stage |-> stage, bridge |-> bridge, item |-> 0,
     pc |-> IF step.answered THEN "done" ELSE "call",
     func |-> IF step.answered THEN None ELSE step.func,
     answer |-> IF step.answered THEN [status |-> step.status, result |-> step.result]
                ELSE [status |-> 0]]

-----------------------------------------------------------------------------
(* The request threads                                                     *)

MaxThreads == 2

HttpRunning == plugin.http_server # NoValue /\ plugin.http_server[1].is_running

\* a request arrives: the server starts a thread for it, sharing the bridge
\* the server was built with; the requests are those drawn in request
Accept ==
    /\ HttpRunning
    /\ Len(threads) < Len(request)
    /\ threads' = Append(threads,
            Thread(request[Len(threads) + 1], 1, plugin.http_server[1].bridge,
                   Begin(request[Len(threads) + 1])))
    /\ UNCHANGED <<plugin, bridges, defaults, items, mainPc, log>>
    /\ UNCHANGED <<font, glyphColor, request, response, stemVars, domVars>>

\* execute_on_main, first statement: the running check
CheckRunning(t) ==
    /\ threads[t].pc = "call"
    /\ threads' = [threads EXCEPT ![t] =
            IF bridges[threads[t].bridge]._running THEN [@ EXCEPT !.pc = "put"]
            ELSE Thread(@.op, @.stage, @.bridge, Failed("RuntimeError"))]
    /\ UNCHANGED <<plugin, bridges, defaults, items, mainPc, log>>
    /\ UNCHANGED <<font, glyphColor, request, response, stemVars, domVars>>

\* the item is made and put on the queue
Put(t) ==
    /\ threads[t].pc = "put"
    /\ items' = Append(items, WorkItem(threads[t].func))
    /\ bridges' = [bridges EXCEPT ![threads[t].bridge]._queue = Append(@, Len(items) + 1)]
    /\ threads' = [threads EXCEPT ![t].pc = "wait", ![t].item = Len(items) + 1]
    /\ UNCHANGED <<plugin, defaults, mainPc, log>>
    /\ UNCHANGED <<font, glyphColor, request, response, stemVars, domVars>>

\* the wait ends signalled: the error is raised or the result returned, and
\* the handler goes on
Woken(thread, item) ==
    IF item.error # None THEN Thread(thread.op, thread.stage, thread.bridge, Failed(item.error))
    ELSE [Thread(thread.op, thread.stage + 1, thread.bridge,
                 Continue(thread.op, thread.stage, item.result))
            EXCEPT !.item = thread.item]

Wake(t) ==
    /\ threads[t].pc = "wait"
    /\ items[threads[t].item].event
    /\ threads' = [threads EXCEPT ![t] =
            [Woken(@, items[@.item]) EXCEPT !.item = threads[t].item]]
    /\ UNCHANGED <<plugin, bridges, defaults, items, mainPc, log>>
    /\ UNCHANGED <<font, glyphColor, request, response, stemVars, domVars>>

\* the wait ends after TIMEOUT with the event still clear
Timeout(t) ==
    /\ threads[t].pc = "wait"
    /\ ~items[threads[t].item].event
    /\ threads' = [threads EXCEPT ![t] =
            [Thread(@.op, @.stage, @.bridge, Failed("TimeoutError"))
                EXCEPT !.item = threads[t].item]]
    /\ UNCHANGED <<plugin, bridges, defaults, items, mainPc, log>>
    /\ UNCHANGED <<font, glyphColor, request, response, stemVars, domVars>>

-----------------------------------------------------------------------------
(* The main thread: the timer callback and the menu callbacks              *)

MainIdle == mainPc.at = "idle"

\* the thread that made the item has been answered that it timed out
TimedOut(i) ==
    \E t \in 1..Len(threads) :
        threads[t].item = i /\ threads[t].pc = "done" /\ threads[t].answer.status = 503

\* the timer of a bridge fires between two callbacks: drainQueue_ begins
TimerFires ==
    /\ MainIdle
    /\ \E b \in 1..Len(bridges) :
          /\ bridges[b]._timer
          /\ mainPc' = IF bridges[b]._running
                       THEN [at |-> "drain", bridge |-> b, items_processed |-> 0]
                       ELSE mainPc
    /\ UNCHANGED <<plugin, bridges, defaults, items, threads, log>>
    /\ UNCHANGED <<font, glyphColor, request, response, stemVars, domVars>>

\* the item after its function ran and its event was set
Done(item, ran) == [item EXCEPT !.result = ran.result, !.error = ran.raised, !.event = TRUE]

\* one turn of the loop of drainQueue_: the item is taken, run and signalled
DrainItem ==
    /\ mainPc.at = "drain"
    /\ bridges[mainPc.bridge]._queue # <<>>
    /\ mainPc.items_processed < DRAIN_CAP
    /\ LET got == get_nowait(bridges[mainPc.bridge]._queue)
           ran == Run(items[got.item].func, font, defaults)
       IN  /\ bridges' = [bridges EXCEPT ![mainPc.bridge]._queue = got.rest]
           /\ items' = [items EXCEPT ![got.item] = Done(@, ran)]
           /\ font' = ran.font
           /\ log' = Append(log, [item |-> got.item, bridge |-> mainPc.bridge,
                                  func |-> items[got.item].func.name,
                                  result |-> ran.result, raised |-> ran.raised,
                                  allowed |-> defaults.allowExecute,
                                  late |-> TimedOut(got.item)])
    /\ mainPc' = [mainPc EXCEPT !.items_processed = @ + 1]
    /\ UNCHANGED <<plugin, defaults, threads>>
    /\ UNCHANGED <<glyphColor, request, response, stemVars, domVars>>

\* the loop of drainQueue_ ends
DrainEnd ==
    /\ mainPc.at = "drain"
    /\ bridges[mainPc.bridge]._queue = <<>> \/ mainPc.items_processed >= DRAIN_CAP
    /\ mainPc' = [at |-> "idle"]
    /\ UNCHANGED <<plugin, bridges, defaults, items, threads, log>>
    /\ UNCHANGED <<font, glyphColor, request, response, stemVars, domVars>>

\* plugin.py: startServer, with the port free or taken; a taken port raises
\* in MCPHTTPServer.start after the bridge was started
MaxBridges == 2

StartServer ==
    /\ MainIdle
    /\ ~HttpRunning
    /\ Len(bridges) < MaxBridges
    /\ \E bound \in BOOLEAN :
          plugin' = [bridge |-> Some(Len(bridges) + 1),
                     http_server |-> Some([is_running |-> bound,
                                           bridge |-> Len(bridges) + 1])]
    /\ bridges' = Append(bridges, BridgeStart(MainThreadBridge))
    /\ UNCHANGED <<defaults, items, threads, mainPc, log>>
    /\ UNCHANGED <<font, glyphColor, request, response, stemVars, domVars>>

\* stopServer up to the flush loop of bridge.stop(): the server is stopped
\* and dropped, the bridge stops running and its timer is invalidated
StopServer ==
    /\ MainIdle
    /\ plugin' = [plugin EXCEPT !.http_server = NoValue]
    /\ IF plugin.bridge = NoValue THEN UNCHANGED <<bridges, mainPc>>
       ELSE /\ bridges' = [bridges EXCEPT ![plugin.bridge[1]]._running = FALSE,
                                          ![plugin.bridge[1]]._timer = FALSE]
            /\ mainPc' = [at |-> "stop", bridge |-> plugin.bridge[1]]
    /\ UNCHANGED <<defaults, items, threads, log>>
    /\ UNCHANGED <<font, glyphColor, request, response, stemVars, domVars>>

\* one turn of the flush loop of bridge.stop()
StopFlush ==
    /\ mainPc.at = "stop"
    /\ bridges[mainPc.bridge]._queue # <<>>
    /\ LET got == get_nowait(bridges[mainPc.bridge]._queue)
       IN  /\ bridges' = [bridges EXCEPT ![mainPc.bridge]._queue = got.rest]
           /\ items' = [items EXCEPT ![got.item].error = "Exception",
                                     ![got.item].event = TRUE]
    /\ UNCHANGED <<plugin, defaults, threads, mainPc, log>>
    /\ UNCHANGED <<font, glyphColor, request, response, stemVars, domVars>>

\* bridge.stop() returns and stopServer drops the bridge
StopEnd ==
    /\ mainPc.at = "stop"
    /\ bridges[mainPc.bridge]._queue = <<>>
    /\ plugin' = [plugin EXCEPT !.bridge = NoValue]
    /\ mainPc' = [at |-> "idle"]
    /\ UNCHANGED <<bridges, defaults, items, threads, log>>
    /\ UNCHANGED <<font, glyphColor, request, response, stemVars, domVars>>

\* toggleServer_
ToggleServer == IF HttpRunning THEN StopServer ELSE StartServer

\* toggleExecute_
ToggleExecute ==
    /\ MainIdle
    /\ defaults' = [defaults EXCEPT !.allowExecute = ~@]
    /\ UNCHANGED <<plugin, bridges, items, threads, mainPc, log>>
    /\ UNCHANGED <<font, glyphColor, request, response, stemVars, domVars>>

-----------------------------------------------------------------------------
(* The plugin with its server started, stopped and toggled while requests  *)
(* whose handlers make one execute_on_main call are served                 *)

\* the function of the n-th request returns n, or raises
CallOps(n) ==
    {[handler |-> "call", func |-> f] :
        f \in {[name |-> "value", value |-> n], [name |-> "raise", type |-> "KeyError"]}}

CallRequests == {r \in [1..MaxThreads -> UNION {CallOps(n) : n \in 1..MaxThreads}] :
                    \A n \in 1..MaxThreads : r[n] \in CallOps(n)}

InitServer ==
    /\ StemIdle
    /\ DomIdle
    /\ font = NoFont
    /\ glyphColor = <<>>
    /\ request \in CallRequests
    /\ response = Pending
    /\ SysIdle

ServerNext ==
    \/ StartServer
    \/ StopServer
    \/ ToggleServer
    \/ StopFlush
    \/ StopEnd
    \/ TimerFires
    \/ DrainItem
    \/ DrainEnd
    \/ Accept
    \/ \E t \in 1..Len(threads) : CheckRunning(t)
    \/ \E t \in 1..Len(threads) : Put(t)
    \/ \E t \in 1..Len(threads) : Wake(t)
    \/ \E t \in 1..Len(threads) : Timeout(t)

SpecServer == InitServer /\ [][ServerNext]_vars

-----------------------------------------------------------------------------
(* Properties of the bridge and of the plugin's server                     *)

\* the bridges whose poll timer is scheduled
Polling == {b \in 1..Len(bridges) : bridges[b]._timer}

\* C28, as stated: at any time at most one bridge has an active poll timer,
\* and while the HTTP server is not running no bridge is running.
\* Violated: a start whose bind fails leaves its bridge running.
C28_OneBridge ==
    /\ Cardinality(Polling) <= 1
    /\ ~HttpRunning => Polling = {}

\* stop() of bridge b has been called and has returned
Stopped(b) ==
    /\ ~bridges[b]._running
    /\ ~(mainPc.at = "stop" /\ mainPc.bridge = b)

\* C25, as stated: once stop() has returned, the queue of the bridge holds
\* no item whose event is clear, no thread that passed the running check is
\* waiting un-signalled, and no item of the bridge is executed.  Violated:
\* a thread that passed the running check before stop() puts
\* its item after the flush and waits for the timeout.
C25_StopReleasesAll ==
    \A b \in 1..Len(bridges) :
        Stopped(b) =>
            /\ \A k \in 1..Len(bridges[b]._queue) : items[bridges[b]._queue[k]].event
            /\ \A t \in 1..Len(threads) :
                  (threads[t].bridge = b /\ threads[t].pc = "wait") =>
                      items[threads[t].item].event
            /\ ~(mainPc.at = "drain" /\ mainPc.bridge = b)

\* C27, as stated: an item whose caller was answered with the timeout is
\* not executed afterwards.  Violated: the item stays in the queue and the
\* next tick of the timer runs it.
C27_TimedOutNeverRuns == \A k \in 1..Len(log) : ~log[k].late

\* the positions in the log at which item i was executed
Executions(i) == {k \in 1..Len(log) : log[k].item = i}

\* the answer a thread gives for an execution that returned or raised
Delivered(entry) ==
    IF entry.raised = None THEN [status |-> 200, result |-> entry.result]
    ELSE [status |-> 500, result |-> [error |-> entry.raised, type |-> entry.raised]]

\* C21: every item is executed at most once, and only inside drainQueue_;
\* the items of a bridge are executed in the order they were put, none
\* being passed over; a caller that was signalled in time is answered with
\* the return value of the execution of its own item, or with the exception
\* that execution raised; an item that raised is signalled like any other.
C21_ExecutedOnceInOrder ==
    /\ \A i \in 1..Len(items) : Cardinality(Executions(i)) <= 1
    /\ \A k \in 1..Len(log) :
          /\ \A j \in 1..(k - 1) :
                log[j].bridge = log[k].bridge => log[j].item < log[k].item
          /\ \A q \in Range(bridges[log[k].bridge]._queue) : q > log[k].item
          /\ items[log[k].item].event
          /\ items[log[k].item].error = log[k].raised
    /\ \A i \in 1..Len(items) :
          items[i].event => (Executions(i) # {} \/ items[i].error = "Exception")
    /\ \A t \in 1..Len(threads) :
          (threads[t].pc = "done" /\ threads[t].answer.status # 503) =>
              /\ \A k \in Executions(threads[t].item) :
                    threads[t].answer = Delivered(log[k])
              /\ threads[t].answer.status = 200 => Executions(threads[t].item) # {}

\* an item raised, the next item of the same tick returned, and both callers
\* have their answers
C21_Witness ==
    /\ Len(log) = 2
    /\ log[1].bridge = log[2].bridge
    /\ log[1].raised = "KeyError"
    /\ log[2].raised = None
    /\ mainPc.at = "drain"
    /\ mainPc.items_processed = 2
    /\ \E t, u \in 1..Len(threads) :
          /\ threads[t].item = log[1].item /\ threads[t].answer.status = 500
          /\ threads[u].item = log[2].item /\ threads[u].answer.status = 200
          /\ threads[u].answer.result = log[2].result

-----------------------------------------------------------------------------
(* POST /api/execute served while the user toggles the preference          *)

\* the plugin after a startServer that bound its port
Serving ==
    /\ plugin = [bridge |-> Some(1),
                 http_server |-> Some([is_running |-> TRUE, bridge |-> 1])]
    /\ bridges = <<BridgeStart(MainThreadBridge)>>
    /\ items = <<>>
    /\ threads = <<>>
    /\ mainPc = [at |-> "idle"]
    /\ log = <<>>

ExecuteOps == {[handler |-> "execute", body |-> b] : b \in {NoBody, [code |-> "code"]}}

InitExecute ==
    /\ StemIdle
    /\ DomIdle
    /\ font = NoFont
    /\ glyphColor = <<>>
    /\ request \in [1..MaxThreads -> ExecuteOps]
    /\ response = Pending
    /\ Serving
    /\ defaults = [allowExecute |-> FALSE]

ExecuteNext ==
    \/ ToggleExecute
    \/ TimerFires
    \/ DrainItem
    \/ DrainEnd
    \/ Accept
    \/ \E t \in 1..Len(threads) : CheckRunning(t)
    \/ \E t \in 1..Len(threads) : Put(t)
    \/ \E t \in 1..Len(threads) : Wake(t)
    \/ \E t \in 1..Len(threads) : Timeout(t)

SpecExecute == InitExecute /\ [][ExecuteNext]_vars

\* C22, as stated: submitted code is executed only at moments at which the
\* preference is true, and a request whose permission check found it false
\* is answered 403 and none of its code is run.  Violated: the preference
\* is switched off between the permission check and the execution.
C22_RunsOnlyWhileAllowed ==
    /\ \A k \in 1..Len(log) : log[k].func = "_execute" => log[k].allowed
    /\ \A k \in 1..Len(log) :
          (log[k].func = "_check_allowed" /\ ~log[k].allowed) =>
              \A t \in 1..Len(threads) :
                  (threads[t].item = log[k].item /\ threads[t].pc # "wait") =>
                      /\ threads[t].pc = "done"
                      /\ threads[t].answer.status \in {403, 503}

-----------------------------------------------------------------------------
(* Create, delete, rename and duplicate requests served concurrently       *)

GlyphNames == {"A", "B"}

\* a font with one master whose glyphs have distinct names
GlyphFonts ==
    {[masters |-> <<[id |-> "m1"]>>, glyphs |-> gs] :
        gs \in {<<>>, <<[name |-> "A"]>>, <<[name |-> "A"], [name |-> "B"]>>}}

GlyphOps ==
    {[handler |-> "create", body |-> NoBody]} \cup
    {[handler |-> "create", body |-> [name |-> n, width |-> w]] :
        n \in GlyphNames, w \in {[number |-> 600], [text |-> "wide"]}} \cup
    {[handler |-> "delete", name |-> n] : n \in GlyphNames} \cup
    {[handler |-> h, name |-> n, body |-> b] :
        h \in {"rename", "duplicate"}, n \in GlyphNames,
        b \in {NoBody} \cup {[newName |-> m] : m \in GlyphNames}}

\* two requests, served in threads of their own
InitGlyphs ==
    /\ StemIdle
    /\ DomIdle
    /\ font \in GlyphFonts
    /\ glyphColor = <<>>
    /\ request \in GlyphOps \X GlyphOps
    /\ response = Pending
    /\ Serving
    /\ defaults = [allowExecute |-> FALSE]

GlyphsNext ==
    \/ TimerFires
    \/ DrainItem
    \/ DrainEnd
    \/ Accept
    \/ \E t \in 1..Len(threads) : CheckRunning(t)
    \/ \E t \in 1..Len(threads) : Put(t)
    \/ \E t \in 1..Len(threads) : Wake(t)
    \/ \E t \in 1..Len(threads) : Timeout(t)

SpecGlyphs == InitGlyphs /\ [][GlyphsNext]_vars

\* no two glyphs of the font have the same name
UniqueNames ==
    \A i, j \in 1..Len(font.glyphs) : font.glyphs[i].name = font.glyphs[j].name => i = j

\* the function is a create, rename or duplicate whose target name is taken
Collides(func, fnt) ==
    \/ func.name = "_create_glyph" /\ GlyphIndex(fnt, func.glyph_name) # 0
    \/ func.name \in {"_rename", "_duplicate"} /\ GlyphIndex(fnt, func.new_name) # 0

\* the function drainQueue_ is about to run
Executing == items[Head(bridges[mainPc.bridge]._queue)].func

\* a caller whose function raised is answered with an error
ErrorsAnswered ==
    \A t \in 1..Len(threads) :
        \A k \in Executions(threads[t].item) :
            (threads[t].pc = "done" /\ log[k].raised # None) =>
                threads[t].answer.status \in {500, 503}

\* C23: under every interleaving of create, rename, duplicate and delete
\* requests the glyph names of the font stay unique, and the execution of a
\* create, rename or duplicate whose target name exists raises, leaves
\* font.glyphs as it was, and its caller is answered with an error.
C23_NamesStayUnique ==
    /\ [](UniqueNames /\ ErrorsAnswered)
    /\ [][(log' # log /\ Collides(Executing, font)) =>
            (font' = font /\ log'[Len(log')].raised # None)]_vars

\* two requests raced to create the same glyph: the first made it, the
\* second raised ValueError and was answered 500
C23_Witness ==
    /\ Len(log) = 2
    /\ log[1].func = "_create_glyph" /\ log[1].raised = None
    /\ log[2].func = "_create_glyph" /\ log[2].raised = "ValueError"
    /\ threads[1].op = threads[2].op
    /\ \A t \in 1..2 : threads[t].pc = "done"
    /\ {threads[1].answer.status, threads[2].answer.status} = {201, 500}
    /\ UniqueNames

====
